---- MODULE Spec2Model ----
(***************************************************************************)
(* Model of the incident-response core: the IncidentConversation Durable   *)
(* Object (per-incident storage, chat turns, status updates), the Worker   *)
(* routes in front of it (HTTP and WebSocket), the report route and the    *)
(* IncidentResponseWorkflow pipeline.                                      *)
(*                                                                         *)
(* Scheduling model.  A Durable Object delivers no other event while the   *)
(* running handler awaits a storage operation (input gate), so a run of    *)
(* storage gets/puts is one atomic step.  Awaiting the inference call      *)
(* this.env.AI.run(...) is ordinary I/O: the gate is open and other        *)
(* requests to the same object run in between.  handleMessage is therefore *)
(* two steps (before and after the inference call); every other handler is *)
(* one step.                                                               *)
(***************************************************************************)
EXTENDS Integers, Sequences, FiniteSets, TLC

VARIABLES
    storage,    \* storage[id]: the key/value storage of the object named id
    now,        \* Date.now()
    calls,      \* handleMessage invocations suspended in AI.run
    reports,    \* handleGenerateReport invocations in progress
    lastResp,   \* the response most recently returned to a caller
    completed,  \* history variable: chat turns that returned successfully
    resolvedBy, \* history variable: ids for which updateStatus(resolved) completed
    pool,       \* the incident ids the environment addresses
    wf,         \* the instance of IncidentResponseWorkflow, if one was created
    left        \* remaining environment steps of each kind

vars == <<storage, now, calls, reports, lastResp, completed, resolvedBy, pool, wf, left>>

----------------------------------------------------------------------------
(* Bounds *)

MaxOps == 3
MaxCalls == 2
MaxUpdates == 2
MaxTicks == 1
MaxReads == 1

(* Input domains *)

Ids == {"INC-1", "INC-2"}
Messages == {"m1", "m2"}
Severities == {"high"}

----------------------------------------------------------------------------
(* Durable Object storage: a partial map from key to value *)

EmptyStorage == [k \in {} |-> 0]

Has(s, k) == k \in DOMAIN s

Put(s, k, v) == [x \in (DOMAIN s) \cup {k} |-> IF x = k THEN v ELSE s[x]]

\* (await storage.get(k)) || dflt, for keys whose stored values are truthy
GetOr(s, k, dflt) == IF Has(s, k) THEN s[k] ELSE dflt

SameStore(a, b) == DOMAIN a = DOMAIN b /\ \A k \in DOMAIN a : a[k] = b[k]

----------------------------------------------------------------------------
(* The inference boundary.  AI.run either throws or returns an object; the  *)
(* texts are model outputs with trigger phrases; an object with an empty    *)
(* response stands for an output without any.                               *)

Texts == {"ROOT CAUSE: connection pool exhausted.",
          "Root cause is the pool; remediation: restart."}

AiOutcomes == {[kind |-> "throw"]} \cup
              {[kind |-> "object", response |-> t] : t \in Texts \cup {""}}

\* JSON.stringify(aiResponse) of an object whose response is empty
StringifiedEmpty == "{\"response\":\"\"}"

\* typeof aiResponse === 'string' ? aiResponse
\*   : (aiResponse as any).response || JSON.stringify(aiResponse)
ExtractResponseText(o) == IF o.response # "" THEN o.response ELSE StringifiedEmpty

\* aiResponse.toLowerCase()
toLowerCase(t) ==
    CASE t = "ROOT CAUSE: connection pool exhausted." -> "root cause: connection pool exhausted."
      [] t = "Root cause is the pool; remediation: restart." -> "root cause is the pool; remediation: restart."
      [] t = "Steps To Resolve: restart the pool." -> "steps to resolve: restart the pool."
      [] t = "All systems look healthy." -> "all systems look healthy."
      [] OTHER -> t

TriggerPhrases == {"root cause", "identified the issue", "to fix", "remediation", "steps to resolve"}

\* the trigger phrases that occur in t as substrings (String.prototype.includes)
PhrasesIn(t) ==
    CASE t = "root cause: connection pool exhausted." -> {"root cause"}
      [] t = "root cause is the pool; remediation: restart." -> {"root cause", "remediation"}
      [] t = "Root cause is the pool; remediation: restart." -> {"remediation"}
      [] t = "steps to resolve: restart the pool." -> {"steps to resolve"}
      [] OTHER -> {}

includes(t, phrase) == phrase \in PhrasesIn(t)

\* String.prototype.trim
trim(line) ==
    CASE line = "  2. verify recovery" -> "2. verify recovery"
      [] line = " " -> ""
      [] OTHER -> line

----------------------------------------------------------------------------
(* IncidentConversation *)

\* getIncidentDataFromStorage: the record returned to callers; JSON drops
\* the keys whose value is undefined
OptionalKeys == {"endTime", "rootCause", "remediationSteps"}

getIncidentDataFromStorage(s, t) ==
    [k \in {"incidentId", "status", "severity", "title", "description",
            "affectedSystems", "startTime", "timeline"}
           \cup (OptionalKeys \cap DOMAIN s) |->
        CASE k = "incidentId" -> GetOr(s, k, "unknown")
          [] k = "status" -> GetOr(s, k, "investigating")
          [] k = "severity" -> GetOr(s, k, "medium")
          [] k = "title" -> GetOr(s, k, "Untitled Incident")
          [] k = "description" -> GetOr(s, k, "")
          [] k = "affectedSystems" -> GetOr(s, k, <<>>)
          [] k = "startTime" -> GetOr(s, k, t)
          [] k = "timeline" -> GetOr(s, k, <<>>)
          [] OTHER -> s[k]]

\* variant: writes a timeline of the new event alone
addTimelineEvent_Overwrite(s, event) ==
    Put(s, "timeline", <<event>>)

\* addTimelineEvent: read the stored timeline, push, write back
addTimelineEvent(s, event) ==
    Put(s, "timeline", Append(GetOr(s, "timeline", <<>>), event))

Event(t, type, description) ==
    [timestamp |-> t, type |-> type, description |-> description]

EventWith(t, type, description, data) ==
    [timestamp |-> t, type |-> type, description |-> description, data |-> data]

\* variant: the root-cause test without the test of the current status
analyzeFirst_NoGuard(s, t, lowerResponse, currentStatus) ==
    IF includes(lowerResponse, "root cause") \/ includes(lowerResponse, "identified the issue")
    THEN addTimelineEvent(Put(s, "status", "identified"),
                          Event(t, "analysis", "Root cause identified by AI"))
    ELSE s

\* analyzeAndUpdateStatus: both tests use the status read on entry
analyzeFirst(s, t, lowerResponse, currentStatus) ==
    IF /\ currentStatus = "investigating"
       /\ (includes(lowerResponse, "root cause") \/ includes(lowerResponse, "identified the issue"))
    THEN addTimelineEvent(Put(s, "status", "identified"),
                          Event(t, "analysis", "Root cause identified by AI"))
    ELSE s

\* variant: the remediation test without the test of the current status
analyzeSecond_NoGuard(s, t, lowerResponse, currentStatus) ==
    IF \/ includes(lowerResponse, "to fix")
       \/ includes(lowerResponse, "remediation")
       \/ includes(lowerResponse, "steps to resolve")
    THEN addTimelineEvent(Put(s, "status", "mitigating"),
                          Event(t, "action", "Remediation in progress"))
    ELSE s

\* variant: the remediation test for the status identified alone
analyzeSecond_IdentifiedOnly(s, t, lowerResponse, currentStatus) ==
    IF /\ currentStatus = "identified"
       /\ (\/ includes(lowerResponse, "to fix")
           \/ includes(lowerResponse, "remediation")
           \/ includes(lowerResponse, "steps to resolve"))
    THEN addTimelineEvent(Put(s, "status", "mitigating"),
                          Event(t, "action", "Remediation in progress"))
    ELSE s

analyzeSecond(s, t, lowerResponse, currentStatus) ==
    IF /\ currentStatus \in {"identified", "investigating"}
       /\ (\/ includes(lowerResponse, "to fix")
           \/ includes(lowerResponse, "remediation")
           \/ includes(lowerResponse, "steps to resolve"))
    THEN addTimelineEvent(Put(s, "status", "mitigating"),
                          Event(t, "action", "Remediation in progress"))
    ELSE s

analyzeAndUpdateStatus(s, t, aiResponse) ==
    LET lowerResponse == toLowerCase(aiResponse)
        currentStatus == GetOr(s, "status", "undefined")
    IN analyzeSecond(analyzeFirst(s, t, lowerResponse, currentStatus),
                     t, lowerResponse, currentStatus)

\* variant: /init records the initial status as a status change before the
\* detection event
initializeIncident_StatusEventFirst(s, incidentData, t) ==
    LET s1 == Put(s, "incidentId", incidentData.incidentId)
        s2 == Put(s1, "status", GetOr(incidentData, "status", "investigating"))
        s3 == Put(s2, "severity", incidentData.severity)
        s4 == Put(s3, "title", incidentData.title)
        s5 == Put(s4, "description", incidentData.description)
        s6 == Put(s5, "affectedSystems", GetOr(incidentData, "affectedSystems", <<>>))
        s7 == Put(s6, "startTime", GetOr(incidentData, "startTime", t))
        s8 == Put(s7, "history", <<>>)
    IN Put(s8, "timeline",
           <<Event(t, "update", "Status changed to: investigating"),
             EventWith(t, "detection", "Incident detected and initialized", incidentData)>>)

\* initializeIncident: the keys written by /init
initializeIncident(s, incidentData, t) ==
    LET s1 == Put(s, "incidentId", incidentData.incidentId)
        s2 == Put(s1, "status", GetOr(incidentData, "status", "investigating"))
        s3 == Put(s2, "severity", incidentData.severity)
        s4 == Put(s3, "title", incidentData.title)
        s5 == Put(s4, "description", incidentData.description)
        s6 == Put(s5, "affectedSystems", GetOr(incidentData, "affectedSystems", <<>>))
        s7 == Put(s6, "startTime", GetOr(incidentData, "startTime", t))
        s8 == Put(s7, "history", <<>>)
    IN Put(s8, "timeline",
           <<EventWith(t, "detection", "Incident detected and initialized", incidentData)>>)

Msg(role, content, t) == [role |-> role, content |-> content, timestamp |-> t]

\* handleMessage up to the inference call: the history is loaded and the user
\* message pushed onto the local copy only
handleMessageLoad(s, message, t) ==
    Append(GetOr(s, "history", <<>>), Msg("user", message, t))

\* variant: only the reply is pushed, onto the history as stored by then
handleMessagePersist_PushesReply(s, localHistory, responseText, t) ==
    LET history == Append(GetOr(s, "history", <<>>), Msg("assistant", responseText, t))
    IN Put(Put(s, "history", history), "lastActivity", t)

\* handleMessage after the inference call returned responseText: the local
\* copy, with the assistant message pushed, is written back whole
handleMessagePersist(s, localHistory, responseText, t) ==
    LET history == Append(localHistory, Msg("assistant", responseText, t))
    IN Put(Put(s, "history", history), "lastActivity", t)

\* then the update event of the turn goes to the timeline
handleMessageRecord(s, message, responseText, t) ==
    addTimelineEvent(s, EventWith(t, "update", "AI analysis performed",
                         [userMessage |-> message, aiResponse |-> responseText]))

\* variant: the status heuristic runs before the update event is appended
handleMessageStore_HeuristicFirst(s, localHistory, message, responseText, t) ==
    handleMessageRecord(
        analyzeAndUpdateStatus(handleMessagePersist(s, localHistory, responseText, t),
                               t, responseText),
        message, responseText, t)

\* the writes of handleMessage in their order: history, timeline, heuristic
handleMessageStore(s, localHistory, message, responseText, t) ==
    analyzeAndUpdateStatus(
        handleMessageRecord(handleMessagePersist(s, localHistory, responseText, t),
                            message, responseText, t),
        t, responseText)

\* updateStatus: fields is the request body, a partial record
Truthy(fields, k) == Has(fields, k) /\ fields[k] # ""

updateStatusStatus(s, fields, t) ==
    IF Truthy(fields, "status")
    THEN addTimelineEvent(Put(s, "status", fields.status),
             Event(t, "update", "Status changed to: " \o fields.status))
    ELSE s

\* variant: a provided root cause also moves the status to identified
updateStatusRootCause_SetsIdentified(s, fields, t) ==
    IF Truthy(fields, "rootCause")
    THEN addTimelineEvent(Put(Put(s, "rootCause", fields.rootCause), "status", "identified"),
             EventWith(t, "analysis", "Root cause identified", [rootCause |-> fields.rootCause]))
    ELSE s

updateStatusRootCause(s, fields, t) ==
    IF Truthy(fields, "rootCause")
    THEN addTimelineEvent(Put(s, "rootCause", fields.rootCause),
             EventWith(t, "analysis", "Root cause identified", [rootCause |-> fields.rootCause]))
    ELSE s

\* variant: an empty list of remediation steps is not written
updateStatusRemediation_NonEmptyOnly(s, fields, t) ==
    IF Has(fields, "remediationSteps") /\ Len(fields.remediationSteps) > 0
    THEN addTimelineEvent(Put(s, "remediationSteps", fields.remediationSteps),
             EventWith(t, "action", "Remediation plan created",
                       [remediationSteps |-> fields.remediationSteps]))
    ELSE s

updateStatusRemediation(s, fields, t) ==
    IF Has(fields, "remediationSteps")
    THEN addTimelineEvent(Put(s, "remediationSteps", fields.remediationSteps),
             EventWith(t, "action", "Remediation plan created",
                       [remediationSteps |-> fields.remediationSteps]))
    ELSE s

\* variant: stamps endTime on every status change
updateStatusEndTime_AnyStatus(s, fields, t) ==
    IF Truthy(fields, "status")
    THEN Put(s, "endTime", t)
    ELSE s

\* variant: the end is stored as the time elapsed since the start
updateStatusEndTime_Elapsed(s, fields, t) ==
    IF Has(fields, "status") /\ fields.status = "resolved"
    THEN Put(s, "endTime", t - GetOr(s, "startTime", t))
    ELSE s

updateStatusEndTime(s, fields, t) ==
    IF Has(fields, "status") /\ fields.status = "resolved"
    THEN Put(s, "endTime", t)
    ELSE s

updateStatus(s, fields, t) ==
    updateStatusEndTime(
        updateStatusRemediation(
            updateStatusRootCause(
                updateStatusStatus(s, fields, t), fields, t), fields, t), fields, t)

\* types.ts SYSTEM_PROMPT, by its first line
SYSTEM_PROMPT == "You are an expert AI incident response assistant"

MsPerMinute == 60000

RECURSIVE join(_, _)
\* Array.prototype.join
join(arr, sep) ==
    IF Len(arr) = 0 THEN ""
    ELSE IF Len(arr) = 1 THEN arr[1]
    ELSE arr[1] \o sep \o join(Tail(arr), sep)

RootCauseLine(incidentData) ==
    IF Truthy(incidentData, "rootCause")
    THEN <<"- Known Root Cause: " \o incidentData.rootCause>>
    ELSE <<>>

\* variant: the remediation line nested under the root-cause test
RemediationLine_UnderRootCause(incidentData) ==
    IF /\ Truthy(incidentData, "rootCause")
       /\ Has(incidentData, "remediationSteps")
       /\ Len(incidentData.remediationSteps) > 0
    THEN <<"- Remediation Steps: " \o join(incidentData.remediationSteps, "; ")>>
    ELSE <<>>

RemediationLine(incidentData) ==
    IF Has(incidentData, "remediationSteps") /\ Len(incidentData.remediationSteps) > 0
    THEN <<"- Remediation Steps: " \o join(incidentData.remediationSteps, "; ")>>
    ELSE <<>>

\* buildContextPrompt: the prompt as the sequence of its lines (the pieces
\* the code joins with "\n"); t is Date.now()
buildContextPrompt(incidentData, t) ==
    <<SYSTEM_PROMPT, "", "CURRENT INCIDENT CONTEXT:",
      "- Incident ID: " \o incidentData.incidentId,
      "- Title: " \o incidentData.title,
      "- Status: " \o incidentData.status,
      "- Severity: " \o incidentData.severity,
      "- Description: " \o incidentData.description>>
    \o (IF Len(incidentData.affectedSystems) > 0
        THEN <<"- Affected Systems: " \o join(incidentData.affectedSystems, ", ")>>
        ELSE <<>>)
    \o RootCauseLine(incidentData)
    \o RemediationLine(incidentData)
    \o <<"- Incident Duration: "
         \o ToString((t - incidentData.startTime) \div MsPerMinute) \o " minutes">>

\* handleMessage: the context prompt of this call, built from the record as
\* loaded by this call
handleMessageContext(s, t) ==
    buildContextPrompt(getIncidentDataFromStorage(s, t), t)

\* the messages argument of AI.run: the system message with the prompt, its
\* lines joined, then role and content of every message of the local history
PrepareMessages(contextPrompt, history) ==
    <<[role |-> "system", content |-> join(contextPrompt, "\n")]>>
    \o [i \in 1..Len(history) |-> [role |-> history[i].role, content |-> history[i].content]]

\* variant: the prompt is the one of the record as it was created
handleMessagePrepare_CreationContext(s, message, t) ==
    PrepareMessages(
        handleMessageContext(
            [k \in (DOMAIN s) \ {"rootCause", "remediationSteps"} |->
                IF k = "status" THEN "investigating" ELSE s[k]], t),
        handleMessageLoad(s, message, t))

handleMessagePrepare(s, message, t) ==
    PrepareMessages(handleMessageContext(s, t), handleMessageLoad(s, message, t))

\* env.INCIDENTS.get(env.INCIDENTS.idFromName(incidentId)): the object a
\* request for incidentId is routed to
ObjectFor_Shared(incidentId) == "INC-1"

ObjectFor(incidentId) == incidentId

----------------------------------------------------------------------------
(* Responses.  doStatus is the HTTP status of the Durable Object's         *)
(* response, status the one of the Worker's response to its caller.        *)

Resp(op, id, doStatus, status, body) ==
    [op |-> op, id |-> id, doStatus |-> doStatus, status |-> status, body |-> body]

NoResp == Resp("none", "", 0, 0, [none |-> TRUE])

\* no instance of the workflow exists
NoWorkflow == [state |-> "none"]

\* IncidentConversation.fetch: the catch block turns a thrown error into 500
InternalError == [error |-> "Internal error"]

\* every environment step spends one unit of its kind and one of the total
Spend(kind) ==
    /\ left.ops > 0
    /\ left[kind] > 0
    /\ left' = [left EXCEPT ![kind] = @ - 1, !.ops = @ - 1]

----------------------------------------------------------------------------
(* Worker routes and the handlers they reach *)

Descriptions == {"", "Users reporting 504 errors"}

\* handleNewIncident: validation, a fresh incident id, /init on its object.
\* The id is INC-<Date.now()>-<random>: no request has named it before.
Fresh(id) ==
    /\ DOMAIN storage[id] = {}
    /\ \A c \in calls : c.id # id
    /\ \A r \in reports : r.id # id
    /\ lastResp.id # id

HandleNewIncidentInvalid ==
    /\ \E description \in Descriptions, severity \in Severities \cup {""} :
          /\ description = "" \/ severity = ""
          /\ lastResp' = Resp("createIncident", "", 0, 400,
                              [error |-> "Description and severity are required"])
    /\ lastResp # lastResp'
    /\ UNCHANGED <<storage, now, calls, reports, completed, resolvedBy, pool, wf, left>>

HandleNewIncident ==
    \E id \in pool, description \in Descriptions \ {""}, severity \in Severities :
        /\ Fresh(id)
        /\ LET incidentData == [incidentId |-> id,
                                title |-> "Incident " \o id,
                                description |-> description,
                                severity |-> severity,
                                affectedSystems |-> <<>>,
                                startTime |-> now]
           IN storage' = [storage EXCEPT ![ObjectFor(id)] = initializeIncident(@, incidentData, now)]
        /\ lastResp' = Resp("createIncident", id, 200, 201,
                            [incidentId |-> id, status |-> "created"])
        /\ UNCHANGED <<now, calls, reports, completed, resolvedBy, pool, wf, left>>

\* handleChat: validation only; the message never reaches an object
HandleChatInvalid ==
    /\ lastResp' = Resp("postMessage", "", 0, 400,
                        [error |-> "Message and incidentId are required"])
    /\ lastResp # lastResp'
    /\ UNCHANGED <<storage, now, calls, reports, completed, resolvedBy, pool, wf, left>>

\* handleChat -> handleMessage, up to the await of AI.run
HandleMessageStartWith(messages) ==
    \E id \in pool, message \in messages :
        /\ Spend("calls")
        /\ calls' = calls \cup
              {[cid |-> left.calls, via |-> "chat", id |-> id, message |-> message,
                history |-> handleMessageLoad(storage[ObjectFor(id)], message, now),
                context |-> handleMessageContext(storage[ObjectFor(id)], now),
                messages |-> handleMessagePrepare(storage[ObjectFor(id)], message, now)]}
        /\ UNCHANGED <<storage, now, reports, lastResp, completed, resolvedBy, pool, wf>>

HandleMessageStart == HandleMessageStartWith(Messages)

\* an engineer chats while the pipeline runs
EngineerChats == HandleMessageStartWith({"m1"})

\* the inference call of a suspended handleMessage throws: fetch's catch
\* answers 500 and handleChat re-wraps the body in a Response of its own,
\* built without a status
HandleMessageFail ==
    \E c \in calls :
        /\ c.via # "workflow"
        /\ calls' = calls \ {c}
        /\ lastResp' = Resp("postMessage", c.id, 500, 200, InternalError)
        /\ UNCHANGED <<storage, now, reports, completed, resolvedBy, pool, wf, left>>

\* the inference call of a suspended handleMessage returns
HandleMessageFinish ==
    \E c \in calls, o \in AiOutcomes :
        /\ c.via # "workflow"
        /\ o.kind = "object"
        /\ LET responseText == ExtractResponseText(o)
               s == handleMessageStore(storage[ObjectFor(c.id)], c.history, c.message,
                                       responseText, now)
           IN /\ storage' = [storage EXCEPT ![ObjectFor(c.id)] = s]
              /\ lastResp' = Resp("postMessage", c.id, 200, 200,
                                  [response |-> responseText,
                                   history |-> s.history,
                                   incidentData |-> getIncidentDataFromStorage(s, now)])
              /\ completed' = completed \cup
                    {[cid |-> c.cid, id |-> c.id, message |-> c.message,
                      response |-> responseText,
                      before |-> GetOr(storage[ObjectFor(c.id)], "status", "undefined")]}
        /\ calls' = calls \ {c}
        /\ UNCHANGED <<now, reports, resolvedBy, pool, wf, left>>

----------------------------------------------------------------------------
(* The WebSocket route.  The responses go out as socket messages; they are  *)
(* recorded like HTTP responses, the socket having no status of its own.    *)

\* handleWebSocket, data.type === 'text': message and incidentId are taken
\* from the frame and forwarded as they are ("" is a missing or empty message)
HandleWsText ==
    \E id \in pool, message \in Messages \cup {""} :
        /\ Spend("calls")
        /\ calls' = calls \cup
              {[cid |-> left.calls, via |-> "ws", id |-> id, message |-> message,
                history |-> handleMessageLoad(storage[ObjectFor(id)], message, now),
                context |-> handleMessageContext(storage[ObjectFor(id)], now),
                messages |-> handleMessagePrepare(storage[ObjectFor(id)], message, now)]}
        /\ UNCHANGED <<storage, now, reports, lastResp, completed, resolvedBy, pool, wf>>

\* what the speech model returns
Transcriptions == {[text |-> "m1"], [text |-> ""], [text |-> " "]}

\* JSON.stringify(transcription)
stringify(transcription) == "{\"text\":\"" \o transcription.text \o "\"}"

\* transcription.text || transcription.transcription || JSON.stringify(transcription)
ExtractTranscribedText(transcription) ==
    IF transcription.text # "" THEN transcription.text ELSE stringify(transcription)

\* handleWebSocket, data.type === 'voice': the speech model throws, or the
\* extracted text is sent back and, if data.incidentId && transcribedText &&
\* transcribedText.trim(), forwarded to the incident's object
HandleWsVoice ==
    \E incidentId \in pool \cup {""}, ok \in BOOLEAN, transcription \in Transcriptions :
        /\ Spend("calls")
        /\ IF ~ok
           THEN /\ lastResp' = Resp("voice", incidentId, 0, 500,
                                    [error |-> "Voice processing failed"])
                /\ UNCHANGED calls
           ELSE LET transcribedText == ExtractTranscribedText(transcription)
                IN /\ lastResp' = Resp("voice", incidentId, 0, 200, [text |-> transcribedText])
                   /\ IF incidentId # "" /\ transcribedText # "" /\ trim(transcribedText) # ""
                      THEN calls' = calls \cup
                             {[cid |-> left.calls, via |-> "voice", id |-> incidentId,
                               message |-> transcribedText, heard |-> transcription.text,
                               history |-> handleMessageLoad(storage[ObjectFor(incidentId)], transcribedText, now),
                               context |-> handleMessageContext(storage[ObjectFor(incidentId)], now),
                               messages |-> handleMessagePrepare(storage[ObjectFor(incidentId)], transcribedText, now)]}
                      ELSE UNCHANGED calls
        /\ UNCHANGED <<storage, now, reports, completed, resolvedBy, pool, wf>>

\* request bodies of /update-status
StatusInputs == {"investigating", "resolved", "monitoring"}

UpdateInputs ==
    {[status |-> st] : st \in StatusInputs}
    \cup {[rootCause |-> "pool exhausted", remediationSteps |-> <<"1. restart the pool">>],
          [status |-> "", remediationSteps |-> <<>>]}

UpdateStatusWith(inputs) ==
    \E id \in pool, fields \in inputs :
        /\ Spend("updates")
        /\ storage' = [storage EXCEPT ![ObjectFor(id)] = updateStatus(@, fields, now)]
        /\ resolvedBy' = IF Has(fields, "status") /\ fields.status = "resolved"
                         THEN resolvedBy \cup {id} ELSE resolvedBy
        /\ lastResp' = Resp("updateStatus", id, 200, 200, [success |-> TRUE])
        /\ UNCHANGED <<now, calls, reports, completed, pool, wf>>

UpdateStatus == UpdateStatusWith(UpdateInputs)

\* an operator closes the incident
ResolveIncident == UpdateStatusWith({[status |-> "resolved"]})

\* handleGetIncident -> getIncidentState
HandleGetIncident ==
    \E id \in pool :
        /\ Spend("reads")
        /\ lastResp' = Resp("getRecord", id, 200, 200,
                            getIncidentDataFromStorage(storage[ObjectFor(id)], now))
        /\ UNCHANGED <<storage, now, calls, reports, completed, resolvedBy, pool, wf>>

----------------------------------------------------------------------------
(* Report route.  handleGenerateReport is reached by a request to           *)
(* /api/incident/<id>/report whose method is not GET: the router tests the   *)
(* incident-details route (any GET under /api/incident/) first.              *)

\* the JSON value of an optional field: null, or the value
JNull == [null |-> TRUE]
JValue(v) == [value |-> v]

\* new Date(t).toISOString()
toISOString(t) == "1970-01-01T00:00:00.00" \o ToString(t) \o "Z"

\* generateJSONReport, the incident, timeline and conversation parts
generateJSONReport(incidentData, conversationHistory) ==
    [format |-> "json",
     incident |->
        [id |-> incidentData.incidentId,
         title |-> incidentData.title,
         severity |-> incidentData.severity,
         status |-> incidentData.status,
         description |-> incidentData.description,
         affectedSystems |-> incidentData.affectedSystems,
         startTime |-> toISOString(incidentData.startTime),
         endTime |-> IF Has(incidentData, "endTime")
                     THEN JValue(toISOString(incidentData.endTime)) ELSE JNull,
         rootCause |-> IF Truthy(incidentData, "rootCause")
                       THEN JValue(incidentData.rootCause) ELSE JNull,
         remediationSteps |-> JValue(GetOr(incidentData, "remediationSteps", <<>>))],
     timeline |-> incidentData.timeline,
     conversation |->
        [i \in 1..Len(conversationHistory) |->
            [role |-> conversationHistory[i].role,
             content |-> conversationHistory[i].content,
             timestamp |-> toISOString(conversationHistory[i].timestamp)]]]

\* generateIncidentReport: the data the markdown document renders
generateIncidentReport(incidentData, conversationHistory, executiveSummary) ==
    [format |-> "markdown",
     incident |-> incidentData,
     conversation |-> conversationHistory,
     executiveSummary |-> executiveSummary]

\* handleGenerateReport, first fetch: /incident-state.  historyThen is not
\* read by the code: it keeps the history stored at the time of this fetch
HandleGenerateReportState ==
    \E id \in pool, format \in {"json", "markdown"} :
        /\ Spend("reads")
        /\ reports' = reports \cup
              {[rid |-> left.reads, id |-> id, format |-> format, pc |-> "history",
                incidentData |-> getIncidentDataFromStorage(storage[ObjectFor(id)], now),
                history |-> <<>>,
                historyThen |-> GetOr(storage[ObjectFor(id)], "history", <<>>)]}
        /\ UNCHANGED <<storage, now, calls, lastResp, completed, resolvedBy, pool, wf>>

\* variant: the json document too waits for an executive summary
HandleGenerateReportHistory_AlwaysSummarises ==
    \E r \in reports :
        /\ r.pc = "history"
        /\ LET history == GetOr(storage[ObjectFor(r.id)], "history", <<>>)
           IN IF FALSE
              THEN /\ reports' = reports \ {r}
                   /\ lastResp' = Resp("getReport", r.id, 200, 200,
                                       generateJSONReport(r.incidentData, history))
              ELSE /\ reports' = (reports \ {r}) \cup
                                 {[r EXCEPT !.pc = "summary", !.history = history]}
                   /\ UNCHANGED lastResp
        /\ UNCHANGED <<storage, now, calls, completed, resolvedBy, pool, wf, left>>

\* second fetch: /history; the json document is rendered at once, the
\* markdown one waits for the executive summary
HandleGenerateReportHistory ==
    \E r \in reports :
        /\ r.pc = "history"
        /\ LET history == GetOr(storage[ObjectFor(r.id)], "history", <<>>)
           IN IF r.format = "json"
              THEN /\ reports' = reports \ {r}
                   /\ lastResp' = Resp("getReport", r.id, 200, 200,
                                       generateJSONReport(r.incidentData, history))
              ELSE /\ reports' = (reports \ {r}) \cup
                                 {[r EXCEPT !.pc = "summary", !.history = history]}
                   /\ UNCHANGED lastResp
        /\ UNCHANGED <<storage, now, calls, completed, resolvedBy, pool, wf, left>>

\* generateExecutiveSummary: AI.run returns or throws
HandleGenerateReportSummary ==
    \E r \in reports, o \in AiOutcomes :
        /\ r.pc = "summary"
        /\ reports' = reports \ {r}
        /\ lastResp' =
             IF o.kind = "throw"
             THEN Resp("getReport", r.id, 200, 500, [error |-> "Failed to generate report"])
             ELSE Resp("getReport", r.id, 200, 200,
                       generateIncidentReport(r.incidentData, r.history, o.response))
        /\ UNCHANGED <<storage, now, calls, completed, resolvedBy, pool, wf, left>>

----------------------------------------------------------------------------
(* IncidentResponseWorkflow.run.  The runtime persists the result of every  *)
(* completed step; after a restart run() executes again from the top and    *)
(* the completed steps return their persisted results, so the position in   *)
(* the run is the first step without a result.  An attempt of a step that   *)
(* throws is attempted again until the retries are used up.                 *)

MaxRetries == 1

\* step.sleep('wait-for-mitigation', '5 minutes'), in milliseconds
SleepMs == 300000

WfSeverities == {"critical", "high"}

\* variant: the verification also runs for high severity
NeedsVerification_High(severity) == severity \in {"critical", "high"}

\* if (severity === 'critical')
NeedsVerification(severity) == severity = "critical"

\* variant: the root-cause analysis runs before the initial analysis is posted
StepOrder_RootCauseBeforePost(severity) ==
    <<"initial-analysis", "root-cause-analysis", "update-initial-analysis",
      "generate-remediation", "update-remediation-plan",
      "monitoring-recommendations", "post-incident-summary">>
    \o (IF NeedsVerification(severity)
        THEN <<"wait-for-mitigation", "verify-mitigation">>
        ELSE <<>>)

StepOrder(severity) ==
    <<"initial-analysis", "update-initial-analysis", "root-cause-analysis",
      "generate-remediation", "update-remediation-plan",
      "monitoring-recommendations", "post-incident-summary">>
    \o (IF NeedsVerification(severity)
        THEN <<"wait-for-mitigation", "verify-mitigation">>
        ELSE <<>>)

AiSteps == {"initial-analysis", "root-cause-analysis", "generate-remediation",
            "monitoring-recommendations"}

MessageSteps == {"update-initial-analysis", "verify-mitigation"}

InSeq(x, seq) == \E i \in 1..Len(seq) : seq[i] = x

\* the step run() reaches: the first one without a persisted result
NextStep(w) ==
    LET order == StepOrder(w.payload.severity)
        open == {i \in 1..Len(order) : ~InSeq(order[i], w.done)}
    IN IF open = {} THEN "return"
       ELSE order[CHOOSE i \in open : \A j \in open : i <= j]

\* the texts the model returns to the steps
PlanNumbered == "Plan:\n1. restart the pool\n  2. verify recovery"
PlanProse == "Restart everything."
PlanMixed ==
    "Steps:\n1. restart the pool\n- 3. drain the queue\n  2. verify recovery\n\n10.scale out\nv1.2 is the target"

StepOutputs(name) ==
    CASE name = "initial-analysis" -> {"API gateway is affected"}
      [] name = "root-cause-analysis" -> {"connection pool exhausted", ""}
      [] name = "generate-remediation" -> {PlanNumbered, PlanProse}
      [] OTHER -> {"alert on pool saturation"}

\* remediationPlan.split('\n')
split(text) ==
    CASE text = PlanNumbered -> <<"Plan:", "1. restart the pool", "  2. verify recovery">>
      [] text = PlanMixed -> <<"Steps:", "1. restart the pool", "- 3. drain the queue",
                               "  2. verify recovery", "", "10.scale out", "v1.2 is the target">>
      [] OTHER -> <<text>>

\* /^\d+\./.test(line)
StartsWithNumberDot(line) ==
    line \in {"1. restart the pool", "2. verify recovery", "10.scale out"}

RECURSIVE ParseSteps_Untrimmed(_)
\* variant: the test is made on the line as it is, before trimming
ParseSteps_Untrimmed(lines) ==
    IF Len(lines) = 0 THEN <<>>
    ELSE (IF StartsWithNumberDot(Head(lines)) THEN <<trim(Head(lines))>> ELSE <<>>)
         \o ParseSteps_Untrimmed(Tail(lines))

RECURSIVE ParseSteps(_)
\* .filter((line) => /^\d+\./.test(line.trim())).map((line) => line.trim())
ParseSteps(lines) ==
    IF Len(lines) = 0 THEN <<>>
    ELSE (IF StartsWithNumberDot(trim(Head(lines))) THEN <<trim(Head(lines))>> ELSE <<>>)
         \o ParseSteps(Tail(lines))

InitialAnalysisMessage(initialAnalysis) ==
    "Initial automated analysis completed:\n\n" \o initialAnalysis

Reminder ==
    "[Automated Check] 5 minutes have passed. Please verify that mitigation steps have been applied and are effective."

\* what the callback of step name reads when it runs: the payload fields and
\* the results of the earlier step.do calls its template strings and request
\* bodies interpolate
StepInput(w, name) ==
    LET p == w.payload
        res(n) == w.out[n].result
    IN CASE name = "initial-analysis" ->
               [severity |-> p.severity, description |-> p.description]
         [] name = "update-initial-analysis" ->
               [message |-> InitialAnalysisMessage(res("initial-analysis"))]
         [] name = "root-cause-analysis" ->
               [severity |-> p.severity, description |-> p.description,
                initialAnalysis |-> res("initial-analysis")]
         [] name = "generate-remediation" ->
               [severity |-> p.severity, description |-> p.description,
                rootCause |-> res("root-cause-analysis")]
         [] name = "update-remediation-plan" ->
               [rootCause |-> res("root-cause-analysis"),
                remediationSteps |-> ParseSteps(split(res("generate-remediation")))]
         [] name = "monitoring-recommendations" ->
               [severity |-> p.severity, rootCause |-> res("root-cause-analysis")]
         [] name = "post-incident-summary" ->
               [initialAnalysis |-> res("initial-analysis"),
                rootCause |-> res("root-cause-analysis"),
                remediation |-> res("generate-remediation"),
                monitoring |-> res("monitoring-recommendations")]
         [] OTHER -> [message |-> Reminder]

\* the callback of step name starts to run: fed keeps what it read
Began(w, name) == [w EXCEPT !.fed = Put(@, name, StepInput(w, name))]

\* a created instance: nothing persisted yet
NewInstance(payload) ==
    [state |-> "running", payload |-> payload, done |-> <<>>, out |-> EmptyStorage,
     attempts |-> 0, awaiting |-> 0, issued |-> 0, wakeAt |-> 0, fed |-> EmptyStorage]

\* a step completed: its result is persisted
StepDone(w, name, result) ==
    [w EXCEPT !.done = Append(@, name), !.out = Put(@, name, result),
              !.attempts = 0, !.awaiting = 0]

\* an attempt threw: another attempt, or the instance fails for good
StepThrew(w) ==
    IF w.attempts < MaxRetries
    THEN [w EXCEPT !.attempts = @ + 1, !.awaiting = 0]
    ELSE [w EXCEPT !.state = "errored", !.awaiting = 0]

\* variant: a failed instance goes on with the step that is due
AtStep_AfterFailure(names) ==
    wf.state \in {"running", "errored"} /\ wf.awaiting = 0 /\ NextStep(wf) \in names

AtStep(names) == wf.state = "running" /\ wf.awaiting = 0 /\ NextStep(wf) \in names

\* the four inference steps: AI.run throws, or the step returns
\* typeof response === 'string' ? response : response.response
WfAiStep ==
    /\ AtStep(AiSteps)
    /\ \E ok \in BOOLEAN :
          IF ok
          THEN \E text \in StepOutputs(NextStep(wf)) :
                   wf' = StepDone(Began(wf, NextStep(wf)), NextStep(wf), [result |-> text])
          ELSE wf' = StepThrew(Began(wf, NextStep(wf)))
    /\ UNCHANGED <<storage, now, calls, reports, lastResp, completed, resolvedBy, pool, left>>

\* variant: the request is not sent for an incident that is resolved
WfPostMessageStart_UnlessResolved ==
    /\ AtStep(MessageSteps)
    /\ GetOr(storage[ObjectFor(wf.payload.incidentId)], "status", "undefined") # "resolved"
    /\ LET id == wf.payload.incidentId
           message == StepInput(wf, NextStep(wf)).message
           cid == 0 - (wf.issued + 1)
       IN /\ calls' = calls \cup
                {[cid |-> cid, via |-> "workflow", id |-> id, message |-> message,
                  history |-> handleMessageLoad(storage[ObjectFor(id)], message, now),
                  context |-> handleMessageContext(storage[ObjectFor(id)], now),
                  messages |-> handleMessagePrepare(storage[ObjectFor(id)], message, now)]}
          /\ wf' = [Began(wf, NextStep(wf)) EXCEPT !.awaiting = cid, !.issued = @ + 1]
    /\ UNCHANGED <<storage, now, reports, lastResp, completed, resolvedBy, pool, left>>

\* update-initial-analysis and verify-mitigation, up to the inference call
\* inside the object's handleMessage
WfPostMessageStart ==
    /\ AtStep(MessageSteps)
    /\ LET id == wf.payload.incidentId
           message == StepInput(wf, NextStep(wf)).message
           cid == 0 - (wf.issued + 1)
       IN /\ calls' = calls \cup
                {[cid |-> cid, via |-> "workflow", id |-> id, message |-> message,
                  history |-> handleMessageLoad(storage[ObjectFor(id)], message, now),
                  context |-> handleMessageContext(storage[ObjectFor(id)], now),
                  messages |-> handleMessagePrepare(storage[ObjectFor(id)], message, now)]}
          /\ wf' = [Began(wf, NextStep(wf)) EXCEPT !.awaiting = cid, !.issued = @ + 1]
    /\ UNCHANGED <<storage, now, reports, lastResp, completed, resolvedBy, pool, left>>

\* the step's await stub.fetch(...) resolves; the response is not inspected
FetchResolved(w, c) ==
    IF w.state = "running" /\ w.awaiting = c.cid
    THEN StepDone(w, NextStep(w), [result |-> "undefined"])
    ELSE w

\* handleMessage of a workflow request returns
WfMessageFinish ==
    \E c \in calls, o \in AiOutcomes :
        /\ c.via = "workflow"
        /\ o.kind = "object"
        /\ storage' = [storage EXCEPT ![ObjectFor(c.id)] =
                          handleMessageStore(@, c.history, c.message,
                                             ExtractResponseText(o), now)]
        /\ calls' = calls \ {c}
        /\ wf' = FetchResolved(wf, c)
        /\ UNCHANGED <<now, reports, lastResp, completed, resolvedBy, pool, left>>

\* variant: the step's fetch never resolves when the object answers 500
WfMessageFail_Hangs ==
    \E c \in calls :
        /\ c.via = "workflow"
        /\ calls' = calls \ {c}
        /\ UNCHANGED <<storage, now, reports, lastResp, completed, resolvedBy, pool, wf, left>>

\* handleMessage of a workflow request throws: the object answers 500
WfMessageFail ==
    \E c \in calls :
        /\ c.via = "workflow"
        /\ calls' = calls \ {c}
        /\ wf' = FetchResolved(wf, c)
        /\ UNCHANGED <<storage, now, reports, lastResp, completed, resolvedBy, pool, left>>

\* update-remediation-plan: the numbered lines of the plan and the root cause
\* go to /update-status
WfUpdateRemediationPlan ==
    /\ AtStep({"update-remediation-plan"})
    /\ LET fields == StepInput(wf, "update-remediation-plan")
       IN storage' = [storage EXCEPT ![ObjectFor(wf.payload.incidentId)] =
                         updateStatus(@, fields, now)]
    /\ wf' = StepDone(Began(wf, "update-remediation-plan"), "update-remediation-plan",
                      [result |-> "undefined"])
    /\ UNCHANGED <<now, calls, reports, lastResp, completed, resolvedBy, pool, left>>

\* post-incident-summary
WfSummary ==
    /\ AtStep({"post-incident-summary"})
    /\ LET read == StepInput(wf, "post-incident-summary")
       IN wf' = StepDone(Began(wf, "post-incident-summary"), "post-incident-summary",
                    [incidentId |-> wf.payload.incidentId,
                     severity |-> wf.payload.severity,
                     description |-> wf.payload.description,
                     initialAnalysis |-> read.initialAnalysis,
                     rootCause |-> read.rootCause,
                     remediation |-> read.remediation,
                     monitoring |-> read.monitoring,
                     timestamp |-> now])
    /\ UNCHANGED <<storage, now, calls, reports, lastResp, completed, resolvedBy, pool, left>>

\* step.sleep('wait-for-mitigation', '5 minutes'): the instance hibernates
WfSleep ==
    /\ AtStep({"wait-for-mitigation"})
    /\ wf' = [wf EXCEPT !.state = "sleeping", !.wakeAt = now + SleepMs]
    /\ UNCHANGED <<storage, now, calls, reports, lastResp, completed, resolvedBy, pool, left>>

\* the sleep is over
WfWake ==
    /\ wf.state = "sleeping"
    /\ now >= wf.wakeAt
    /\ wf' = [StepDone(wf, "wait-for-mitigation", [result |-> "undefined"])
                 EXCEPT !.state = "running"]
    /\ UNCHANGED <<storage, now, calls, reports, lastResp, completed, resolvedBy, pool, left>>

\* return postIncidentSummary
WfReturn ==
    /\ AtStep({"return"})
    /\ wf' = [wf EXCEPT !.state = "complete"]
    /\ UNCHANGED <<storage, now, calls, reports, lastResp, completed, resolvedBy, pool, left>>

\* the runtime restarts the instance: the attempt in progress is abandoned
\* (a request already sent to the object is still served there) and run()
\* resumes at the first step without a persisted result
\* variant: the re-entered run starts over without the recorded results
WfRestart_Forgets ==
    /\ wf.state \in {"running", "sleeping"}
    /\ Spend("restarts")
    /\ wf' = [wf EXCEPT !.awaiting = 0, !.done = <<>>, !.out = EmptyStorage]
    /\ UNCHANGED <<storage, now, calls, reports, lastResp, completed, resolvedBy, pool>>

WfRestart ==
    /\ wf.state \in {"running", "sleeping"}
    /\ Spend("restarts")
    /\ wf' = [wf EXCEPT !.awaiting = 0]
    /\ UNCHANGED <<storage, now, calls, reports, lastResp, completed, resolvedBy, pool>>

\* time passes until the pending sleep is due
SleepElapses ==
    /\ wf.state = "sleeping"
    /\ now < wf.wakeAt
    /\ now' = wf.wakeAt
    /\ UNCHANGED <<storage, calls, reports, lastResp, completed, resolvedBy, pool, wf, left>>

----------------------------------------------------------------------------
\* Date.now() advances
Tick ==
    /\ Spend("ticks")
    /\ now' = now + 1
    /\ UNCHANGED <<storage, calls, reports, lastResp, completed, resolvedBy, pool, wf>>

InitWith(ids, budget) ==
    /\ storage = [id \in Ids |-> EmptyStorage]
    /\ now = 1
    /\ calls = {}
    /\ reports = {}
    /\ lastResp = NoResp
    /\ completed = {}
    /\ resolvedBy = {}
    /\ pool = ids
    /\ wf = NoWorkflow
    /\ left = budget

Init ==
    InitWith({"INC-1"}, [ops |-> MaxOps, calls |-> MaxCalls, updates |-> MaxUpdates, ticks |-> MaxTicks,
                         reads |-> MaxReads, restarts |-> 0])

Next ==
    \/ HandleNewIncidentInvalid
    \/ HandleNewIncident
    \/ HandleChatInvalid
    \/ HandleMessageStart
    \/ HandleMessageFail
    \/ HandleMessageFinish
    \/ UpdateStatus
    \/ HandleGetIncident
    \/ HandleGenerateReportState
    \/ HandleGenerateReportHistory
    \/ HandleGenerateReportSummary
    \/ Tick

Spec == Init /\ [][Next]_vars

----------------------------------------------------------------------------
(* The record specification: one incident, its chat turns and status        *)
(* updates; the functions of the stored record are checked on its states.   *)

MaxRecordOps == 3

InitRecord ==
    InitWith({"INC-1"}, [ops |-> MaxRecordOps, calls |-> MaxRecordOps,
                         updates |-> MaxRecordOps, ticks |-> MaxRecordOps,
                         reads |-> 0, restarts |-> 0])

NextRecord ==
    \/ HandleNewIncident
    \/ HandleMessageStart
    \/ HandleMessageFail
    \/ HandleMessageFinish
    \/ UpdateStatus
    \/ Tick

SpecRecord == InitRecord /\ [][NextRecord]_vars

----------------------------------------------------------------------------
(* The entry-path specification: creation and chat over HTTP, and the text  *)
(* and voice frames of the WebSocket route.                                 *)

MaxFrames == 2

InitEntry ==
    InitWith({"INC-1"}, [ops |-> MaxFrames, calls |-> MaxFrames, updates |-> 0,
                         ticks |-> MaxFrames, reads |-> 0, restarts |-> 0])

NextEntry ==
    \/ HandleNewIncidentInvalid
    \/ HandleNewIncident
    \/ HandleChatInvalid
    \/ HandleMessageStart
    \/ HandleWsText
    \/ HandleWsVoice
    \/ HandleMessageFail
    \/ HandleMessageFinish
    \/ Tick

SpecEntry == InitEntry /\ [][NextEntry]_vars

----------------------------------------------------------------------------
(* The pipeline specification: an incident was created and an instance of   *)
(* the workflow was created with the same id, severity and description      *)
(* (handleNewIncident describes that call in a comment); the instance runs  *)
(* while callers chat, update the status and the clock advances.            *)

MaxWfOps == 1

CreatedIncident(id, severity) ==
    initializeIncident(EmptyStorage,
        [incidentId |-> id, title |-> "Incident " \o id,
         description |-> "Users reporting 504 errors", severity |-> severity,
         affectedSystems |-> <<>>, startTime |-> 1], 1)

\* INC-1 exists and has its instance; budget is what the environment may do
InitPipeline(severities, ids, budget) ==
    \E severity \in severities :
        /\ storage = [id \in Ids |-> IF id = "INC-1" THEN CreatedIncident(id, severity)
                                     ELSE EmptyStorage]
        /\ now = 1
        /\ calls = {}
        /\ reports = {}
        /\ lastResp = Resp("createIncident", "INC-1", 200, 201,
                           [incidentId |-> "INC-1", status |-> "created"])
        /\ completed = {}
        /\ resolvedBy = {}
        /\ pool = ids
        /\ wf = NewInstance([incidentId |-> "INC-1", severity |-> severity,
                             description |-> "Users reporting 504 errors"])
        /\ left = budget

InitWf ==
    InitPipeline(WfSeverities, {"INC-1"},
                 [ops |-> MaxWfOps, calls |-> MaxWfOps, updates |-> MaxWfOps,
                  ticks |-> MaxWfOps, reads |-> 0, restarts |-> MaxWfOps])

NextWf ==
    \/ WfAiStep
    \/ WfPostMessageStart
    \/ WfMessageFinish
    \/ WfMessageFail
    \/ WfUpdateRemediationPlan
    \/ WfSummary
    \/ WfSleep
    \/ WfWake
    \/ WfReturn
    \/ WfRestart
    \/ SleepElapses
    \/ EngineerChats
    \/ HandleMessageFail
    \/ HandleMessageFinish
    \/ ResolveIncident
    \/ Tick

SpecWf == InitWf /\ [][NextWf]_vars

\* what the runtime and the incident's object do on their own: the due step
\* runs, a request under way ends, a sleep that is due ends
WfProgress ==
    \/ WfAiStep
    \/ WfPostMessageStart
    \/ WfMessageFinish
    \/ WfMessageFail
    \/ WfUpdateRemediationPlan
    \/ WfSummary
    \/ WfSleep
    \/ WfWake
    \/ WfReturn
    \/ SleepElapses
    \/ HandleMessageFinish
    \/ HandleMessageFail

----------------------------------------------------------------------------
(* The status specification: one incident, its chat turns, and callers of   *)
(* /update-status who send the values of the status type or any other text. *)

\* IncidentData.status, the union type
IncidentStatuses == {"investigating", "identified", "mitigating", "resolved", "monitoring"}

\* updateStatus reads status as a string: a caller may send any
CallerStatuses == IncidentStatuses \cup {"closed"}

CallerSetsStatus == UpdateStatusWith({[status |-> st] : st \in CallerStatuses})

MaxStatusOps == 2

InitStatus ==
    InitWith({"INC-1"}, [ops |-> MaxStatusOps + 1, calls |-> MaxStatusOps,
                         updates |-> MaxStatusOps, ticks |-> 0,
                         reads |-> 0, restarts |-> 0])

NextStatus ==
    \/ HandleNewIncident
    \/ HandleMessageStart
    \/ HandleMessageFail
    \/ HandleMessageFinish
    \/ CallerSetsStatus

SpecStatus == InitStatus /\ [][NextStatus]_vars

----------------------------------------------------------------------------
(* The read specification: one incident, its chat turns and status updates, *)
(* and the callers who read the record and ask for reports meanwhile.       *)

MaxReadOps == 2

InitRead ==
    InitWith({"INC-1"}, [ops |-> MaxReadOps + 1, calls |-> MaxReadOps,
                         updates |-> MaxReadOps, ticks |-> 0,
                         reads |-> MaxReadOps, restarts |-> 0])

NextRead ==
    \/ HandleNewIncident
    \/ HandleMessageStart
    \/ HandleMessageFail
    \/ HandleMessageFinish
    \/ UpdateStatus
    \/ HandleGetIncident
    \/ HandleGenerateReportState
    \/ HandleGenerateReportHistory
    \/ HandleGenerateReportSummary

SpecRead == InitRead /\ [][NextRead]_vars

----------------------------------------------------------------------------
(* The delay specification: the pipeline of a critical incident, kept       *)
(* running by the runtime, and an engineer who resolves the incident.       *)

MaxDelayOps == 1

InitDelay ==
    InitPipeline({"critical"}, {"INC-1"},
                 [ops |-> MaxDelayOps, calls |-> 0, updates |-> MaxDelayOps,
                  ticks |-> MaxDelayOps, reads |-> 0, restarts |-> 0])

NextDelay ==
    \/ WfAiStep
    \/ WfPostMessageStart
    \/ WfMessageFinish
    \/ WfMessageFail
    \/ WfUpdateRemediationPlan
    \/ WfSummary
    \/ WfSleep
    \/ WfWake
    \/ WfReturn
    \/ SleepElapses
    \/ ResolveIncident
    \/ Tick

SpecDelay == InitDelay /\ [][NextDelay]_vars /\ WF_vars(WfProgress)

----------------------------------------------------------------------------
(* The traffic specification: a pipeline, kept running by the runtime, and  *)
(* engineers who chat with its incident meanwhile.                          *)

MaxTrafficOps == 1

InitTraffic ==
    InitPipeline(WfSeverities, {"INC-1"},
                 [ops |-> MaxTrafficOps, calls |-> MaxTrafficOps, updates |-> 0,
                  ticks |-> 0, reads |-> 0, restarts |-> MaxTrafficOps])

NextTraffic ==
    \/ WfAiStep
    \/ WfPostMessageStart
    \/ WfMessageFinish
    \/ WfMessageFail
    \/ WfUpdateRemediationPlan
    \/ WfSummary
    \/ WfSleep
    \/ WfWake
    \/ WfReturn
    \/ WfRestart
    \/ SleepElapses
    \/ EngineerChats
    \/ HandleMessageFail
    \/ HandleMessageFinish

SpecTraffic == InitTraffic /\ [][NextTraffic]_vars /\ WF_vars(WfProgress)

----------------------------------------------------------------------------
(* The two-incident specification: INC-1 runs its pipeline while callers    *)
(* create INC-2 and chat with, update and report on either incident.        *)

MaxPairOps == 1

InitPair ==
    InitPipeline({"high"}, Ids,
                 [ops |-> MaxPairOps, calls |-> MaxPairOps, updates |-> MaxPairOps,
                  ticks |-> 0, reads |-> MaxPairOps, restarts |-> 0])

NextPair ==
    \/ HandleNewIncident
    \/ EngineerChats
    \/ HandleMessageFail
    \/ HandleMessageFinish
    \/ ResolveIncident
    \/ HandleGenerateReportState
    \/ HandleGenerateReportHistory
    \/ HandleGenerateReportSummary
    \/ WfAiStep
    \/ WfPostMessageStart
    \/ WfMessageFinish
    \/ WfMessageFail
    \/ WfUpdateRemediationPlan
    \/ WfSummary
    \/ WfReturn

SpecPair == InitPair /\ [][NextPair]_vars

----------------------------------------------------------------------------
(* Vocabulary of the properties *)

Created(id) == Has(storage[id], "incidentId")
History(id) == GetOr(storage[id], "history", <<>>)
Timeline(id) == GetOr(storage[id], "timeline", <<>>)
StatusOf(id) == GetOr(storage[id], "status", "undefined")

IsPrefix(a, b) == Len(a) <= Len(b) /\ \A i \in 1..Len(a) : a[i] = b[i]

CountType(tl, type) == Cardinality({i \in 1..Len(tl) : tl[i].type = type})

\* the turn (user text, assistant text) is an adjacent pair of h
PairIn(h, message, response) ==
    \E i \in 1..(Len(h) - 1) :
        /\ h[i].role = "user" /\ h[i].content = message
        /\ h[i + 1].role = "assistant" /\ h[i + 1].content = response

\* this step ends the suspended call c
Ends(c) == c \in calls /\ c \notin calls'
Succeeds(c) == Ends(c) /\ completed' # completed
Fails(c) == Ends(c) /\ completed' = completed

----------------------------------------------------------------------------
\* C1: after creation the stored history only grows: every stored history is
\* a prefix of the next one, under any interleaving of the operations,
\* overlapping postMessage calls included.
C1_HistoryAppendOnly ==
    [][\A id \in Ids : Created(id) => IsPrefix(History(id), History(id)')]_vars

\* C2: after creation the stored timeline is append-only: every stored
\* timeline is a prefix of the next one.
C2_TimelineAppendOnly ==
    [][\A id \in Ids : Created(id) => IsPrefix(Timeline(id), Timeline(id)')]_vars

\* a created incident whose timeline grew through a chat turn and a status update
C2_Witness ==
    \E id \in Ids :
        /\ Created(id)
        /\ Len(Timeline(id)) >= 3
        /\ \E c \in completed : c.id = id
        /\ \E i \in 1..Len(Timeline(id)) : Timeline(id)[i].description = "Root cause identified"

\* C3: when no call is suspended, the stored history holds the turn of every
\* postMessage that completed successfully, and is as long as a serial
\* execution of those calls makes it.
C3_Linearizable ==
    \A id \in Ids :
        (Created(id) /\ \A c \in calls : c.id # id) =>
            /\ \A c \in completed : c.id = id => PairIn(History(id), c.message, c.response)
            /\ Len(History(id)) = 2 * Cardinality({c \in completed : c.id = id})

\* C4: a postMessage on an id that was never created answers NotFound and
\* writes no key of that id's storage.
C4_PostMessageNotFound ==
    [][\A c \in calls :
          (Ends(c) /\ ~Created(c.id)) =>
              /\ lastResp'.op = "postMessage"
              /\ lastResp'.status = 404
              /\ SameStore(storage'[c.id], storage[c.id])]_vars

\* C5: updateStatus, getRecord and getReport on an id that was never created
\* answer NotFound and write no key of that id's storage.
C5_OperationsNotFound ==
    [][\A id \in Ids :
          (/\ ~Created(id)
           /\ lastResp' # lastResp
           /\ lastResp'.id = id
           /\ lastResp'.op \in {"updateStatus", "getRecord", "getReport"}) =>
              /\ lastResp'.status = 404
              /\ SameStore(storage'[id], storage[id])]_vars

Rank(st) ==
    CASE st = "investigating" -> 1
      [] st = "identified" -> 2
      [] st = "mitigating" -> 3
      [] st = "resolved" -> 4
      [] OTHER -> 0

RootCausePhrase(lower) ==
    includes(lower, "root cause") \/ includes(lower, "identified the issue")

RemediationPhrase(lower) ==
    includes(lower, "to fix") \/ includes(lower, "remediation") \/ includes(lower, "steps to resolve")

\* C6: a step of postMessage (its start, its failure or its completion) leaves
\* status as it is or moves it forward from investigating or identified to
\* identified or mitigating; it never sets resolved or monitoring.
C6_StatusForwardOnly ==
    [][calls' # calls =>
          \A id \in Ids :
              LET a == StatusOf(id)
                  b == StatusOf(id)'
              IN \/ a = b
                 \/ /\ a \in {"investigating", "identified"}
                    /\ b \in {"identified", "mitigating"}
                    /\ Rank(a) < Rank(b)]_vars

\* a chat turn classified at status identified moved the incident to mitigating
C6_Witness ==
    \E c \in completed :
        /\ Created(c.id)
        /\ c.before = "identified"
        /\ RemediationPhrase(toLowerCase(c.response))
        /\ StatusOf(c.id) = "mitigating"

IdentifiedOrLater == {"identified", "mitigating", "resolved", "monitoring"}
MitigatingOrLater == {"mitigating", "resolved", "monitoring"}

\* C7 as stated: a completed postMessage whose assistant text holds a trigger
\* phrase of a transition already made changes no status and appends no
\* analysis or action event; any postMessage appends at most one of each.
C7_HeuristicIdempotent ==
    [][\A c \in calls :
          Succeeds(c) =>
              LET lower == toLowerCase(lastResp'.body.response)
                  s == StatusOf(c.id)
                  tl == Timeline(c.id)
                  tl2 == Timeline(c.id)'
              IN /\ (\/ RootCausePhrase(lower) /\ s \in IdentifiedOrLater
                     \/ RemediationPhrase(lower) /\ s \in MitigatingOrLater) =>
                        /\ StatusOf(c.id)' = s
                        /\ CountType(tl2, "analysis") = CountType(tl, "analysis")
                        /\ CountType(tl2, "action") = CountType(tl, "action")
                 /\ CountType(tl2, "analysis") <= CountType(tl, "analysis") + 1
                 /\ CountType(tl2, "action") <= CountType(tl, "action") + 1]_vars

\* C7 as amended: the root-cause phrase at status identified or later appends
\* no analysis event and does not set status to identified; the remediation
\* phrase at status mitigating or later changes no status and appends no
\* analysis or action event; any postMessage appends at most one of each.
C7_TransitionNotRepeated ==
    [][\A c \in calls :
          Succeeds(c) =>
              LET lower == toLowerCase(lastResp'.body.response)
                  s == StatusOf(c.id)
                  tl == Timeline(c.id)
                  tl2 == Timeline(c.id)'
              IN /\ (RootCausePhrase(lower) /\ s \in IdentifiedOrLater) =>
                        /\ CountType(tl2, "analysis") = CountType(tl, "analysis")
                        /\ StatusOf(c.id)' = "identified" => s = "identified"
                 /\ (RemediationPhrase(lower) /\ s \in MitigatingOrLater) =>
                        /\ StatusOf(c.id)' = s
                        /\ CountType(tl2, "analysis") = CountType(tl, "analysis")
                        /\ CountType(tl2, "action") = CountType(tl, "action")
                 /\ CountType(tl2, "analysis") <= CountType(tl, "analysis") + 1
                 /\ CountType(tl2, "action") <= CountType(tl, "action") + 1]_vars

\* two chat turns carried the root-cause phrase: the first made the
\* transition, the second was classified at identified or later and the
\* timeline holds one analysis event
C7_Witness ==
    \E c \in completed :
        /\ Created(c.id)
        /\ c.before \in IdentifiedOrLater
        /\ RootCausePhrase(toLowerCase(c.response))
        /\ \E d \in completed : d.id = c.id /\ d.before = "investigating"
                                  /\ RootCausePhrase(toLowerCase(d.response))
        /\ CountType(Timeline(c.id), "analysis") = 1

EndTimeSet(id) == Has(storage[id], "endTime")

\* C8: endTime is set exactly for the incidents on which an updateStatus with
\* status = resolved has completed, and no step clears an endTime that is set.
C8_EndTimeIffResolved ==
    /\ [](\A id \in Ids : EndTimeSet(id) <=> id \in resolvedBy)
    /\ [][\A id \in Ids : EndTimeSet(id) => EndTimeSet(id)']_vars

\* an incident resolved earlier and reopened since still carries its endTime
C8_Witness ==
    \E id \in Ids :
        /\ Created(id)
        /\ id \in resolvedBy
        /\ EndTimeSet(id)
        /\ StatusOf(id) = "investigating"

\* C9: endTime is stamped once: it is set at or after startTime, and once set
\* every later step, a further updateStatus with status = resolved included,
\* leaves it equal to the value set the first time.
C9_EndTimeStampedOnce ==
    [][\A id \in Ids :
          Created(id) =>
              IF EndTimeSet(id)
              THEN EndTimeSet(id)' /\ storage'[id].endTime = storage[id].endTime
              ELSE EndTimeSet(id)' => storage'[id].endTime >= storage[id].startTime]_vars

\* C10: when the inference call of a postMessage on an incident fails, the
\* caller gets an error response without assistant text, and the storage of
\* the incident is what it was before the call ended.
C10_FailedTurn ==
    [][\A c \in calls :
          (Fails(c) /\ Created(c.id)) =>
              /\ lastResp'.op = "postMessage"
              /\ lastResp'.status >= 400
              /\ ~Has(lastResp'.body, "response")
              /\ SameStore(storage'[c.id], storage[c.id])]_vars

----------------------------------------------------------------------------
(* The pipeline *)

PipelineStarted(id) == wf.state # "none" /\ wf.payload.incidentId = id

Reminders(h) ==
    Cardinality({i \in 1..Len(h) : h[i].role = "user" /\ h[i].content = Reminder})

\* C11: every successful createIncident starts the pipeline: once the 201
\* response for an incident is returned, an instance of the workflow exists
\* for that incident (from which, inference succeeding, rootCause and
\* remediationSteps would follow).
C11_CreateStartsPipeline ==
    \A id \in Ids :
        (lastResp.op = "createIncident" /\ lastResp.status = 201 /\ lastResp.id = id)
            => PipelineStarted(id)

\* C12: for a critical incident the pipeline posts exactly one reminder into
\* the history: never two, never none once the pipeline has completed, and
\* none stamped before the delay has elapsed after the summary step.
C12_ExactlyOneReminder ==
    (wf.state # "none" /\ wf.payload.severity = "critical") =>
        LET h == History(wf.payload.incidentId)
        IN /\ Reminders(h) <= 1
           /\ wf.state = "complete" => Reminders(h) = 1
           /\ \A i \in 1..Len(h) :
                 (h[i].role = "user" /\ h[i].content = Reminder) =>
                     /\ Has(wf.out, "post-incident-summary")
                     /\ h[i].timestamp >= wf.out["post-incident-summary"].timestamp + SleepMs

\* C13: for a severity other than critical the pipeline never suspends for
\* the delay and never posts a reminder: no sleep is pending or done, no
\* verification step runs, no reminder is in flight or in the history, and
\* the run completes directly after the summary step.
C13_NoReminderUnlessCritical ==
    (wf.state # "none" /\ wf.payload.severity # "critical") =>
        /\ wf.state # "sleeping"
        /\ wf.wakeAt = 0
        /\ ~InSeq("wait-for-mitigation", wf.done)
        /\ ~InSeq("verify-mitigation", wf.done)
        /\ \A c \in calls : c.message # Reminder
        /\ Reminders(History(wf.payload.incidentId)) = 0
        /\ wf.state = "complete" =>
               wf.done[Len(wf.done)] = "post-incident-summary"

C13_Witness ==
    /\ wf.state = "complete"
    /\ wf.payload.severity = "high"
    /\ Len(History(wf.payload.incidentId)) > 0

----------------------------------------------------------------------------
(* updateStatus as a function of the stored record and the request body *)

\* the timeline event kinds of the fields in keys, in the order written
EventTypes(keys) ==
    (IF "status" \in keys THEN <<"update">> ELSE <<>>)
    \o (IF "rootCause" \in keys THEN <<"analysis">> ELSE <<>>)
    \o (IF "remediationSteps" \in keys THEN <<"action">> ELSE <<>>)

\* updateStatus(s, fields) overwrites exactly the fields in keys, appends one
\* event per field in keys, and leaves every other key outside free unchanged
UpdateFrame(s, fields, t, keys, free) ==
    LET after == updateStatus(s, fields, t)
        tl == GetOr(s, "timeline", <<>>)
        tl2 == GetOr(after, "timeline", <<>>)
        types == EventTypes(keys)
    IN /\ \A k \in keys : Has(after, k) /\ after[k] = fields[k]
       /\ \A k \in ((DOMAIN s) \cup (DOMAIN after)) \ (keys \cup {"timeline"} \cup free) :
             Has(s, k) /\ Has(after, k) /\ s[k] = after[k]
       /\ IsPrefix(tl, tl2)
       /\ Len(tl2) = Len(tl) + Len(types)
       /\ \A i \in 1..Len(types) : tl2[Len(tl) + i].type = types[i]
       /\ keys = {} => SameStore(s, after)

EffectiveKeys(fields) ==
    {k \in DOMAIN fields : k = "remediationSteps" \/ fields[k] # ""}

Resolves(fields) == Has(fields, "status") /\ fields.status = "resolved"

----------------------------------------------------------------------------
(* Entry paths *)

\* C15: missing required input changes no state on any entry path: a
\* rejected createIncident leaves every storage and the pipeline as they
\* were, and no chat request without a message or without an incident id,
\* sent over HTTP or as a WebSocket text frame, is ever handed to an
\* incident's object.
C15_MissingInputRejected ==
    /\ [](\A c \in calls :
            (c.via \in {"chat", "ws"} /\ Created(c.id)) => (c.message # "" /\ c.id # ""))
    /\ [][(lastResp' # lastResp /\ lastResp'.status = 400) =>
             /\ \A id \in Ids : SameStore(storage'[id], storage[id])
             /\ calls' = calls
             /\ wf' = wf]_vars

\* C18: a voice message whose transcription is the empty text is no input:
\* no chat turn (and so no inference call, no history, timeline or status
\* change) is started for it.
C18_EmptyTranscriptionIgnored ==
    \A c \in calls : (c.via = "voice" /\ Created(c.id)) => c.heard # ""

----------------------------------------------------------------------------
(* The json report *)

\* the time an ISO string denotes
fromISOString(iso) == CHOOSE t \in 0..now : toISOString(t) = iso

\* the record read back from a json document: an optional field is set iff
\* its value is not null
RecoverRecord(doc) ==
    LET inc == doc.incident
        set == {k \in OptionalKeys : inc[k] # JNull}
    IN [k \in {"incidentId", "status", "severity", "title", "description",
               "affectedSystems", "startTime", "timeline"} \cup set |->
           CASE k = "incidentId" -> inc.id
             [] k = "startTime" -> fromISOString(inc.startTime)
             [] k = "timeline" -> doc.timeline
             [] k = "endTime" -> fromISOString(inc.endTime.value)
             [] k \in {"rootCause", "remediationSteps"} -> inc[k].value
             [] OTHER -> inc[k]]

RecoverHistory(doc) ==
    [i \in 1..Len(doc.conversation) |->
        [role |-> doc.conversation[i].role,
         content |-> doc.conversation[i].content,
         timestamp |-> fromISOString(doc.conversation[i].timestamp)]]

\* C16: the json report round-trips the record: the record and the history
\* read back from the document are the stored ones, and every unset optional
\* field (endTime, rootCause, remediationSteps) is rendered as null.
C16_JsonReportRoundTrip ==
    \A id \in Ids : Created(id) =>
        LET data == getIncidentDataFromStorage(storage[id], now)
            doc == generateJSONReport(data, History(id))
        IN /\ \A k \in OptionalKeys : ~Has(data, k) => doc.incident[k] = JNull
           /\ SameStore(RecoverRecord(doc), data)
           /\ RecoverHistory(doc) = History(id)

----------------------------------------------------------------------------
(* The context prompt *)

RemoveAt(seq, i) == SubSeq(seq, 1, i - 1) \o SubSeq(seq, i + 1, Len(seq))

Without(f, k) == [x \in (DOMAIN f) \ {k} |-> f[x]]

\* C17: the context is a function of the record and the time, and two
\* records that differ only in rootCause being set or unset give, at the same
\* time, contexts that are identical except for the one additional
\* 'Known Root Cause' line.
C17_ContextRootCauseLine ==
    \A id \in Ids : Created(id) =>
        LET data == getIncidentDataFromStorage(storage[id], now)
            rootCause == GetOr(data, "rootCause", "pool exhausted")
            unset == Without(data, "rootCause")
            set == Put(unset, "rootCause", rootCause)
            a == buildContextPrompt(unset, now)
            b == buildContextPrompt(set, now)
        IN /\ Len(b) = Len(a) + 1
           /\ \E i \in 1..Len(b) :
                 /\ b[i] = "- Known Root Cause: " \o rootCause
                 /\ RemoveAt(b, i) = a

\* a chat turn is in flight whose context carries the root cause and the
\* remediation steps of the record
C17_Witness ==
    \E c \in calls :
        /\ InSeq("- Known Root Cause: pool exhausted", c.context)
        /\ InSeq("- Remediation Steps: 1. restart the pool", c.context)

----------------------------------------------------------------------------
(* Independence of incidents *)

\* the incidents the step is an operation on: the one a response is returned
\* for, the one a chat turn or a report starts or ends on, the pipeline's
Targets ==
    (IF lastResp' # lastResp THEN {lastResp'.id} ELSE {})
    \cup {c.id : c \in (calls \ calls') \cup (calls' \ calls)}
    \cup {r.id : r \in (reports \ reports') \cup (reports' \ reports)}
    \cup (IF wf' # wf THEN {wf.payload.incidentId} ELSE {})

\* C19: operations on different incidents are independent: a step of
\* postMessage, updateStatus, createIncident, getReport or of the pipeline on
\* one incident leaves every key of every other incident's storage unchanged,
\* under any interleaving.
C19_IncidentsIndependent ==
    [][\A id \in Ids :
          ~SameStore(storage'[id], storage[id]) =>
              /\ Targets \subseteq {id}
              /\ \A other \in Ids \ {id} : SameStore(storage'[other], storage[other])]_vars

\* the pipeline of INC-1 has written its plan and INC-2 has had a chat turn
C19_Witness ==
    /\ Has(storage["INC-1"], "remediationSteps")
    /\ Len(History("INC-1")) >= 2
    /\ Created("INC-2")
    /\ Len(History("INC-2")) = 2
    /\ ~Has(storage["INC-2"], "remediationSteps")

----------------------------------------------------------------------------
(* The status heuristic as a function of the record and the assistant text *)

\* assistant texts: with the root-cause phrase, with both phrases, with a
\* remediation phrase, with none, and the stringified empty response
HeuristicTexts ==
    Texts \cup {"Steps To Resolve: restart the pool.", "All systems look healthy.",
                StringifiedEmpty}

\* the event kinds analyzeAndUpdateStatus appends to the timeline of s
AppendedTypes(s, after) ==
    LET tl == GetOr(s, "timeline", <<>>)
        tl2 == GetOr(after, "timeline", <<>>)
    IN [i \in 1..(Len(tl2) - Len(tl)) |-> tl2[Len(tl) + i].type]

\* C20: the heuristic, case-insensitive, applies exactly these rules to the
\* assistant text of a chat turn: investigating with a root-cause phrase
\* becomes identified with one analysis event; investigating or identified
\* with a remediation phrase becomes mitigating with one action event;
\* investigating with both ends mitigating with the analysis event before the
\* action event; in every other case the status is unchanged and no event is
\* appended.  Nothing but status and timeline is written.
C20_HeuristicExact ==
    \A id \in Ids : Created(id) =>
        \A text \in HeuristicTexts :
            LET s == storage[id]
                st == StatusOf(id)
                after == analyzeAndUpdateStatus(s, now, text)
                lower == toLowerCase(text)
                rc == RootCausePhrase(lower)
                rem == RemediationPhrase(lower)
                types == AppendedTypes(s, after)
            IN /\ IsPrefix(Timeline(id), GetOr(after, "timeline", <<>>))
               /\ \A k \in (DOMAIN s) \ {"status", "timeline"} : after[k] = s[k]
               /\ DOMAIN after = DOMAIN s
               /\ CASE st = "investigating" /\ rc /\ rem ->
                         after.status = "mitigating" /\ types = <<"analysis", "action">>
                    [] st = "investigating" /\ rc /\ ~rem ->
                         after.status = "identified" /\ types = <<"analysis">>
                    [] st \in {"investigating", "identified"} /\ rem /\ ~(st = "investigating" /\ rc) ->
                         after.status = "mitigating" /\ types = <<"action">>
                    [] OTHER -> SameStore(s, after)

\* a chat turn on an investigating incident returned a text with both
\* phrases: the analysis event, then the action event, status mitigating
C20_Witness ==
    \E c \in completed :
        /\ c.before = "investigating"
        /\ RootCausePhrase(toLowerCase(c.response))
        /\ RemediationPhrase(toLowerCase(c.response))
        /\ StatusOf(c.id) = "mitigating"
        /\ LET tl == Timeline(c.id)
           IN /\ Len(tl) = 4
              /\ tl[3].type = "analysis"
              /\ tl[4].type = "action"

----------------------------------------------------------------------------
(* One chat turn, run without overlap *)

\* the history the suspended call c loaded is still the stored one: no other
\* turn was stored on the incident since c loaded
Unoverlapped(c) ==
    SubSeq(c.history, 1, Len(c.history) - 1) = History(c.id)

\* the events of tl2 after the first n
Appended(tl2, n) == [i \in 1..(Len(tl2) - n) |-> tl2[n + i]]

\* C21: a successful postMessage that ran without overlap appends exactly two
\* history entries, the user message and then the assistant reply, and exactly
\* one update event carrying the user text and the assistant text; the
\* history is stored before the update event is appended, and the update
\* event comes before every analysis or action event of the same call.
C21_TurnAppends ==
    [][\A c \in calls : (Succeeds(c) /\ Unoverlapped(c)) =>
          \E d \in completed' \ completed :
              LET s == storage[c.id]
                  persisted == handleMessagePersist(s, c.history, d.response, now)
                  new == Appended(Timeline(c.id)', Len(Timeline(c.id)))
              IN /\ d.cid = c.cid
                 /\ Len(History(c.id)') = Len(History(c.id)) + 2
                 /\ IsPrefix(History(c.id), History(c.id)')
                 /\ History(c.id)'[Len(History(c.id)) + 1].role = "user"
                 /\ History(c.id)'[Len(History(c.id)) + 1].content = c.message
                 /\ History(c.id)'[Len(History(c.id)) + 2].role = "assistant"
                 /\ History(c.id)'[Len(History(c.id)) + 2].content = d.response
                 /\ persisted.history = History(c.id)'
                 /\ GetOr(persisted, "timeline", <<>>) = Timeline(c.id)
                 /\ IsPrefix(Timeline(c.id), Timeline(c.id)')
                 /\ Len(new) >= 1
                 /\ new[1].type = "update"
                 /\ new[1].data = [userMessage |-> c.message, aiResponse |-> d.response]
                 /\ \A i \in 2..Len(new) : new[i].type \in {"analysis", "action"}]_vars

\* a turn on a fresh incident whose reply names a root cause: two messages,
\* then the update event of the turn followed by the analysis event
C21_Witness ==
    \E c \in completed :
        /\ Created(c.id)
        /\ calls = {}
        /\ Len(History(c.id)) = 2
        /\ History(c.id)[1].content = c.message
        /\ History(c.id)[2].content = c.response
        /\ Len(Timeline(c.id)) >= 3
        /\ Timeline(c.id)[2].type = "update"
        /\ Timeline(c.id)[2].data = [userMessage |-> c.message, aiResponse |-> c.response]
        /\ Timeline(c.id)[3].type = "analysis"

----------------------------------------------------------------------------
(* The inference input of a chat turn *)

\* role and content of the messages of h
Stripped(h) == [i \in 1..Len(h) |-> [role |-> h[i].role, content |-> h[i].content]]

\* C22: in every postMessage the message list given to inference is the
\* system context, then the stored history as this call loaded it, then the
\* user message of this call as the last element; the context is built from
\* the record as stored when the call loads it (its status, rootCause and
\* remediationSteps), not from an earlier call's context.
C22_InferenceInput ==
    [][\A c \in calls' \ calls :
          LET s == storage[c.id]
              incidentData == getIncidentDataFromStorage(s, now)
              n == Len(History(c.id))
          IN /\ Len(c.messages) = n + 2
             /\ c.messages[1] = [role |-> "system",
                                 content |-> join(buildContextPrompt(incidentData, now), "\n")]
             /\ SubSeq(c.messages, 2, n + 1) = Stripped(History(c.id))
             /\ c.messages[n + 2] = [role |-> "user", content |-> c.message]
             /\ c.context = buildContextPrompt(incidentData, now)
             /\ InSeq("- Status: " \o GetOr(s, "status", "investigating"), c.context)
             /\ (Truthy(s, "rootCause") =>
                    InSeq("- Known Root Cause: " \o s.rootCause, c.context))
             /\ ((Has(s, "remediationSteps") /\ Len(s.remediationSteps) > 0) =>
                    InSeq("- Remediation Steps: " \o join(s.remediationSteps, "; "),
                          c.context))]_vars

\* a second turn is suspended at the inference call after the first one moved
\* the status: its input is the prompt with the new status, the stored turn
\* and the new user message
C22_Witness ==
    \E c \in calls :
        /\ Created(c.id)
        /\ Unoverlapped(c)
        /\ Len(History(c.id)) = 2
        /\ Len(c.messages) = 4
        /\ StatusOf(c.id) = "identified"
        /\ InSeq("- Status: identified", c.context)
        /\ c.messages[4] = [role |-> "user", content |-> c.message]

----------------------------------------------------------------------------
(* The order of the pipeline's steps *)

\* the steps every pipeline runs, and the two a critical one adds
CommonOrder ==
    <<"initial-analysis", "update-initial-analysis", "root-cause-analysis",
      "generate-remediation", "update-remediation-plan",
      "monitoring-recommendations", "post-incident-summary">>

CriticalOrder == CommonOrder \o <<"wait-for-mitigation", "verify-mitigation">>

\* the recorded steps of w are the first ones of order, each with its result
RecordedInOrder(w, order) ==
    /\ IsPrefix(w.done, order)
    /\ DOMAIN w.out = {w.done[i] : i \in 1..Len(w.done)}

\* the step of w that is running or due: the one after the recorded ones
Due(w, order) == IF Len(w.done) < Len(order) THEN order[Len(w.done) + 1] ELSE "return"

\* C23: the steps run strictly in the order initial-analysis,
\* update-initial-analysis, root-cause-analysis, generate-remediation,
\* update-remediation-plan, monitoring-recommendations,
\* post-incident-summary, then for critical severity wait-for-mitigation and
\* verify-mitigation: with retries and restarts too, a step starts and acts
\* on the incident only when every step before it is recorded with its
\* result, and the recorded steps only grow, one step at a time.
C23_StepsInOrder ==
    /\ [](wf.state # "none" =>
           LET order == IF wf.payload.severity = "critical"
                        THEN CriticalOrder ELSE CommonOrder
               id == wf.payload.incidentId
           IN /\ RecordedInOrder(wf, order)
              /\ (wf.awaiting # 0 =>
                     /\ Due(wf, order) \in {"update-initial-analysis", "verify-mitigation"}
                     /\ \E c \in calls : c.cid = wf.awaiting)
              /\ (wf.state = "sleeping" => Due(wf, order) = "wait-for-mitigation")
              /\ (wf.state = "complete" => wf.done = order)
              /\ \A c \in calls : c.via = "workflow" =>
                     IF c.message = Reminder
                     THEN InSeq("wait-for-mitigation", wf.done)
                     ELSE /\ InSeq("initial-analysis", wf.done)
                          /\ ~InSeq("root-cause-analysis", wf.done) \/ c.cid # wf.awaiting
              /\ (Has(storage[id], "remediationSteps") =>
                     InSeq("generate-remediation", wf.done))
              /\ (Reminders(History(id)) > 0 => InSeq("wait-for-mitigation", wf.done)))
    /\ [][wf.state # "none" =>
             \/ wf'.done = wf.done
             \/ /\ wf.state \in {"running", "sleeping"}
                /\ Len(wf'.done) = Len(wf.done) + 1
                /\ IsPrefix(wf.done, wf'.done)]_vars

\* a critical pipeline ran to its end through a restart: all nine steps are
\* recorded, the write-back and the reminder reached the incident
C23_Witness ==
    /\ wf.state = "complete"
    /\ wf.payload.severity = "critical"
    /\ wf.done = CriticalOrder
    /\ left.restarts = 0
    /\ Has(storage[wf.payload.incidentId], "remediationSteps")
    /\ Reminders(History(wf.payload.incidentId)) > 0

----------------------------------------------------------------------------
(* Resuming the pipeline *)

\* the callback of step name, when it ran, read the recorded result of from
ReadRecorded(w, name, field, from) ==
    Has(w.fed, name) => (Has(w.out, from) /\ w.fed[name][field] = w.out[from].result)

\* C24: resume is step-level idempotent.  Through retries of a failed step
\* and restarts of the run, a step whose result is recorded never runs again
\* (its result stays as recorded, it reads nothing anew and sends no new
\* request to the incident), and every later step reads the recorded results:
\* the initial-analysis text is the one posted and the one fed to the
\* root-cause analysis; the root-cause text is the one fed to remediation,
\* written back, fed to monitoring and put in the summary.
C24_ResumeIdempotent ==
    /\ [](wf.state # "none" =>
           /\ ReadRecorded(wf, "root-cause-analysis", "initialAnalysis", "initial-analysis")
           /\ ReadRecorded(wf, "generate-remediation", "rootCause", "root-cause-analysis")
           /\ ReadRecorded(wf, "update-remediation-plan", "rootCause", "root-cause-analysis")
           /\ ReadRecorded(wf, "monitoring-recommendations", "rootCause", "root-cause-analysis")
           /\ ReadRecorded(wf, "post-incident-summary", "rootCause", "root-cause-analysis")
           /\ ReadRecorded(wf, "post-incident-summary", "initialAnalysis", "initial-analysis")
           /\ ReadRecorded(wf, "post-incident-summary", "remediation", "generate-remediation")
           /\ (Has(wf.fed, "update-initial-analysis") =>
                  /\ Has(wf.out, "initial-analysis")
                  /\ wf.fed["update-initial-analysis"].message =
                        InitialAnalysisMessage(wf.out["initial-analysis"].result))
           /\ (Has(wf.fed, "update-remediation-plan") =>
                  /\ Has(wf.out, "generate-remediation")
                  /\ wf.fed["update-remediation-plan"].remediationSteps =
                        ParseSteps(split(wf.out["generate-remediation"].result)))
           /\ \A name \in DOMAIN wf.out : Has(wf.fed, name) \/ name = "wait-for-mitigation")
    /\ [][wf.state # "none" =>
             /\ \A name \in DOMAIN wf.out :
                    /\ Has(wf'.out, name) /\ wf'.out[name] = wf.out[name]
                    /\ Has(wf.fed, name) => (Has(wf'.fed, name) /\ wf'.fed[name] = wf.fed[name])
             /\ \A c \in calls' \ calls : c.via = "workflow" =>
                    IF c.message = Reminder
                    THEN ~Has(wf.out, "verify-mitigation")
                    ELSE ~Has(wf.out, "update-initial-analysis")
             /\ (CountType(Timeline(wf.payload.incidentId)', "action")
                    # CountType(Timeline(wf.payload.incidentId), "action")
                 /\ calls' = calls) => ~Has(wf.out, "update-remediation-plan")]_vars

\* after a restart of the run the monitoring step failed once: it is due
\* again, the five steps before it stay recorded, and the root cause written
\* to the incident is the recorded one
C24_Witness ==
    /\ wf.state = "running"
    /\ left.restarts = 0
    /\ wf.attempts = 1
    /\ Len(wf.done) = 5
    /\ Has(wf.fed, "monitoring-recommendations")
    /\ ~Has(wf.out, "monitoring-recommendations")
    /\ wf.out["root-cause-analysis"].result # ""
    /\ GetOr(storage[wf.payload.incidentId], "rootCause", "") = wf.out["root-cause-analysis"].result

----------------------------------------------------------------------------
(* The initial analysis in the conversation *)

\* the messages of h that carry the initial analysis text
InitialAnalysisPosts(h, text) ==
    Cardinality({i \in 1..Len(h) : h[i].role = "user"
                                   /\ h[i].content = InitialAnalysisMessage(text)})

\* C25: once the pipeline is past update-initial-analysis, the stored history
\* of the incident holds exactly one message carrying the initial analysis
\* text: the step does not complete when the incident's object failed to
\* record the message, and a retry does not add it twice.
C25_InitialAnalysisPostedOnce ==
    (wf.state # "none" /\ InSeq("update-initial-analysis", wf.done)) =>
        InitialAnalysisPosts(History(wf.payload.incidentId),
                             wf.out["initial-analysis"].result) = 1

----------------------------------------------------------------------------
(* The write-back of the analysis *)

\* this step is the one in which update-remediation-plan completes
WritesBack == wf.state = "running" /\ wf'.done = Append(wf.done, "update-remediation-plan")

\* the record of the pipeline's incident but for the keys in free
SameRecordBut(free) ==
    LET s == storage[wf.payload.incidentId]
        after == storage'[wf.payload.incidentId]
    IN /\ (DOMAIN after) \ free = (DOMAIN s) \ free
       /\ \A k \in (DOMAIN s) \ free : after[k] = s[k]

\* C26: the write-back step calls updateStatus with rootCause equal to the
\* output of the root-cause step and remediationSteps equal to the list
\* parsed from the output of the remediation step, and nothing else: status
\* and endTime are unchanged, and one analysis event followed by one action
\* event is appended.
C26_WriteBack ==
    [][WritesBack =>
          LET id == wf.payload.incidentId
              rootCause == wf.out["root-cause-analysis"].result
              steps == ParseSteps(split(wf.out["generate-remediation"].result))
              new == Appended(Timeline(id)', Len(Timeline(id)))
          IN /\ Has(storage'[id], "rootCause") /\ storage'[id].rootCause = rootCause
             /\ Has(storage'[id], "remediationSteps")
             /\ storage'[id].remediationSteps = steps
             /\ SameRecordBut({"rootCause", "remediationSteps", "timeline"})
             /\ IsPrefix(Timeline(id), Timeline(id)')
             /\ Len(new) = 2
             /\ new[1].type = "analysis" /\ new[2].type = "action"]_vars

\* C26, amended: as above, but the root cause is written and its analysis
\* event appended only when the output of the root-cause step is not empty;
\* with an empty output rootCause keeps its stored value and the action event
\* is the only one appended.  The events carry the values written.
C26_WriteBackAmended ==
    [][WritesBack =>
          LET id == wf.payload.incidentId
              rootCause == wf.out["root-cause-analysis"].result
              steps == ParseSteps(split(wf.out["generate-remediation"].result))
              new == Appended(Timeline(id)', Len(Timeline(id)))
          IN /\ Has(storage'[id], "remediationSteps")
             /\ storage'[id].remediationSteps = steps
             /\ IsPrefix(Timeline(id), Timeline(id)')
             /\ new[Len(new)].type = "action"
             /\ new[Len(new)].data = [remediationSteps |-> steps]
             /\ IF rootCause # ""
                THEN /\ Has(storage'[id], "rootCause") /\ storage'[id].rootCause = rootCause
                     /\ SameRecordBut({"rootCause", "remediationSteps", "timeline"})
                     /\ Len(new) = 2
                     /\ new[1].type = "analysis"
                     /\ new[1].data = [rootCause |-> rootCause]
                ELSE /\ SameRecordBut({"remediationSteps", "timeline"})
                     /\ Len(new) = 1]_vars

\* the write-back of a non-empty root cause and a numbered plan is done: the
\* record holds both, the analysis event and the action event end the
\* timeline, the status is the one the incident had
C26_Witness ==
    /\ wf.state = "running"
    /\ Len(wf.done) = 5
    /\ wf.done[5] = "update-remediation-plan"
    /\ LET s == storage[wf.payload.incidentId]
           tl == Timeline(wf.payload.incidentId)
       IN /\ Len(tl) >= 3
          /\ Has(s, "rootCause") /\ s.rootCause = "connection pool exhausted"
          /\ Has(s, "remediationSteps")
          /\ s.remediationSteps = <<"1. restart the pool", "2. verify recovery">>
          /\ tl[Len(tl) - 1].type = "analysis"
          /\ tl[Len(tl)].type = "action"
          /\ ~Has(s, "endTime")

----------------------------------------------------------------------------
(* The extraction of the remediation steps *)

\* remediation outputs: numbered lines, prose, numbered lines among others,
\* and the empty text
PlanTexts == {PlanNumbered, PlanProse, PlanMixed, ""}

Trimmed(lines) == [i \in 1..Len(lines) |-> trim(lines[i])]

----------------------------------------------------------------------------
(* A step that fails for good *)

Halted == wf.state = "errored"

\* the values stored for the keys the write-back wrote
WrittenBack(s) == [k \in {"rootCause", "remediationSteps"} \cap DOMAIN s |-> s[k]]

\* C28: when a step fails permanently the pipeline halts.  The failing step
\* changes nothing in the incident record; afterwards no step runs (the
\* instance stays as it is and sends no request to the incident), and what the
\* earlier steps wrote stays: rootCause and remediationSteps keep their
\* values, the timeline keeps its events, the history is touched only by a
\* request that was already under way.  Nothing is rolled back.
C28_HaltKeepsPartialResults ==
    [][wf.state # "none" =>
          LET id == wf.payload.incidentId
          IN /\ (~Halted /\ Halted') =>
                    /\ storage' = storage
                    /\ calls' = calls
                    /\ wf'.done = wf.done /\ wf'.out = wf.out
             /\ Halted =>
                    /\ wf' = wf
                    /\ \A c \in calls' \ calls : c.via # "workflow"
                    /\ WrittenBack(storage'[id]) = WrittenBack(storage[id])
                    /\ IsPrefix(Timeline(id), Timeline(id)')
                    /\ (calls' = calls => History(id)' = History(id))]_vars

\* the monitoring step failed for good after the write-back: the instance is
\* halted, the posted analysis, the root cause and the steps are in the record
C28_Witness ==
    /\ Halted
    /\ Len(wf.done) = 5
    /\ LET id == wf.payload.incidentId
       IN /\ InitialAnalysisPosts(History(id), wf.out["initial-analysis"].result) = 1
          /\ Has(storage[id], "rootCause")
          /\ Has(storage[id], "remediationSteps")
          /\ CountType(Timeline(id), "analysis") >= 1

----------------------------------------------------------------------------
(* A failure of the pipeline, seen from the incident *)

\* the keys and the event kinds the operations of the incident write
RecordKeys ==
    {"incidentId", "title", "description", "severity", "status", "affectedSystems",
     "startTime", "endTime", "rootCause", "remediationSteps", "history", "timeline",
     "lastActivity"}

EventKinds == {"detection", "update", "analysis", "action"}

\* the record of id holds something that tells of a failed pipeline: a key or
\* an event kind of its own, or a status outside the incident's life cycle
FailureRecorded(id) ==
    \/ \E k \in DOMAIN storage[id] : k \notin RecordKeys
    \/ \E i \in 1..Len(Timeline(id)) : Timeline(id)[i].type \notin EventKinds
    \/ StatusOf(id) \notin {"investigating", "identified", "mitigating", "monitoring",
                            "resolved"}

\* C29: a failure of the pipeline is observable in the incident: whenever the
\* pipeline halts on a step that failed for good, the record of the incident
\* (created with success before) eventually holds an entry, a timeline event
\* or a field, that indicates the failure.
C29_FailureObservable ==
    (wf.state # "none" /\ Halted /\ Created(wf.payload.incidentId))
        ~> FailureRecorded(wf.payload.incidentId)

----------------------------------------------------------------------------
(* The reminder and a resolved incident *)

\* the incident was resolved by updateStatus while the pipeline slept
ResolvedDuringDelay ==
    /\ wf.state # "none"
    /\ wf.payload.severity = "critical"
    /\ Has(wf.out, "post-incident-summary")
    /\ StatusOf(wf.payload.incidentId) = "resolved"
    /\ Has(storage[wf.payload.incidentId], "endTime")
    /\ storage[wf.payload.incidentId].endTime <
           wf.out["post-incident-summary"].timestamp + SleepMs

\* the verification step has sent its request with the reminder
ReminderSent ==
    /\ Has(wf.fed, "verify-mitigation")
    /\ wf.fed["verify-mitigation"].message = Reminder

\* C30: for a critical incident the reminder is posted after the delay even
\* when updateStatus set the incident to resolved before the delay elapsed:
\* the sleeping pipeline wakes and sends the reminder, no earlier than the
\* delay after the summary, whatever the status; the request is handled as
\* any chat turn, and nothing cancels the pipeline.
C30_ReminderAfterResolve ==
    /\ [](wf.state # "none" =>
           /\ (ResolvedDuringDelay /\ wf.state = "running" /\ wf.awaiting = 0
               /\ NextStep(wf) = "verify-mitigation") => ENABLED WfPostMessageStart
           /\ ResolvedDuringDelay => wf.state \in {"sleeping", "running", "complete"}
           /\ \A c \in calls : (c.via = "workflow" /\ c.message = Reminder) =>
                  c.history[Len(c.history)].timestamp >=
                      wf.out["post-incident-summary"].timestamp + SleepMs)
    /\ ((ResolvedDuringDelay /\ wf.state = "sleeping") ~> ReminderSent)

\* the incident was resolved during the delay and the reminder is in its
\* history all the same, stamped after the delay; the status is still resolved
C30_Witness ==
    /\ ResolvedDuringDelay
    /\ wf.state = "complete"
    /\ ReminderSent
    /\ LET h == History(wf.payload.incidentId)
       IN /\ Reminders(h) = 1
          /\ \E i \in 1..Len(h) :
                /\ h[i].content = Reminder
                /\ h[i].timestamp > storage[wf.payload.incidentId].endTime

----------------------------------------------------------------------------
(* Termination of the pipeline under chat traffic *)

\* the pipeline has ended: run() returned, or a step failed for good
Terminated == wf.state \in {"complete", "errored"}

\* the steps of the run that have no recorded result yet
StepsLeft(w) == Len(StepOrder(w.payload.severity)) - Len(w.done)

\* how far the run is from its end: the steps left, then within the due step
\* the attempts left, whether its request is still to be sent, and how far
\* the sleep is
WfMeasure(w) ==
    IF w.state \in {"complete", "errored"} THEN 0
    ELSE 1 + StepsLeft(w) * (MaxRetries + 6)
           + (MaxRetries - w.attempts)
           + (IF w.awaiting = 0 THEN 2 ELSE 0)
           + (IF w.state # "sleeping" THEN 2 ELSE IF now < w.wakeAt THEN 1 ELSE 0)

\* the work ahead: what the callers may still ask for, the requests
\* suspended at their inference call, and the rest of the run
Measure == 3 * left.ops + Cardinality(calls) + WfMeasure(wf)

\* the guards of the steps of WfProgress: a request suspended at its
\* inference call can return or fail; a run that is not awaiting a request
\* has its due step; a sleeping run has its sleep to end
CanProgress ==
    \/ calls # {}
    \/ AtStep(AiSteps \cup MessageSteps
              \cup {"update-remediation-plan", "post-incident-summary",
                    "wait-for-mitigation", "return"})
    \/ wf.state = "sleeping"

\* C31: once started the pipeline always terminates and never deadlocks with
\* chat traffic.  Until the run has ended (completed, or halted by a
\* permanent failure) and every postMessage has returned, the runtime or the
\* incident's object has a step to take (the due step of the run, the end of
\* a sleep, the return or failure of an inference call), and every step
\* brings the end nearer; so under fair scheduling, with every inference call
\* returning a result or an error, the run ends and every postMessage issued
\* meanwhile returns.
C31_PipelineTerminates ==
    /\ [](~(Terminated /\ calls = {}) => CanProgress)
    /\ [][Measure' < Measure /\ Measure' >= 0]_vars

\* CanProgress is the enabling condition of WfProgress
C31_CanProgressIsEnabled == CanProgress <=> ENABLED WfProgress

\* the conclusion as a property of the fair behaviours: in the end the run
\* has ended and no request is suspended, for good
C31_EventuallyQuiet == <>[](Terminated /\ calls = {})

\* the pipeline of a critical incident completed with an engineer's turn
\* taken in between: the analysis, then the engineer's message, then the
\* reminder are in the history, and no request is left suspended
C31_Witness ==
    /\ wf.state = "complete"
    /\ calls = {}
    /\ completed # {}
    /\ LET h == History(wf.payload.incidentId)
       IN \E i, j, k \in 1..Len(h) :
             /\ i < j /\ j < k
             /\ h[i].content = InitialAnalysisMessage(wf.out["initial-analysis"].result)
             /\ h[j].content = "m1"
             /\ h[k].content = Reminder

----------------------------------------------------------------------------
(* The reads of a report *)

\* this step is the second fetch of the report request r
ReadsHistory(r) == r \in reports /\ r.pc = "history" /\ r \notin reports'

\* C32: a report is generated from one consistent snapshot of the record:
\* the history read for it is the history of the record state its metadata
\* and timeline were read from, also when a postMessage or an updateStatus on
\* the incident completes while the report is generated.
C32_ReportSnapshot ==
    [][\A r \in reports :
          (ReadsHistory(r) /\ Created(r.id)) => History(r.id) = r.historyThen]_vars

----------------------------------------------------------------------------
(* Reading the record *)

\* this step is a read of the record by getRecord or a step of a report
ReadStep == left'.reads # left.reads \/ reports' # reports

\* the report requests numbered rid that are under way in rs
Underway(rs, rid) == {r \in rs : r.rid = rid}

\* C33: report generation and getRecord are read-only and bounded in their
\* use of inference.  None of their steps changes the record (no field, no
\* history entry, no timeline entry) or starts a chat turn; a json report is
\* delivered by the step that read the history, with no inference call; a
\* markdown report waits for exactly one inference call, the executive
\* summary, and is delivered when that call returns or fails.
C33_ReadsAreReadOnly ==
    /\ [](\A r \in reports : r.pc = "summary" => r.format = "markdown")
    /\ [][/\ ReadStep => (storage' = storage /\ calls' = calls /\ completed' = completed)
          /\ \A r \in reports : r \notin reports' =>
                CASE r.pc = "history" /\ r.format = "json" ->
                         /\ Underway(reports', r.rid) = {}
                         /\ lastResp'.op = "getReport"
                  [] r.pc = "history" /\ r.format # "json" ->
                         /\ Cardinality(Underway(reports', r.rid)) = 1
                         /\ \A r2 \in Underway(reports', r.rid) : r2.pc = "summary"
                         /\ lastResp' = lastResp
                  [] OTHER ->
                         /\ r.pc = "summary"
                         /\ Underway(reports', r.rid) = {}
                         /\ lastResp'.op = "getReport"]_vars

\* a markdown report of an incident with a stored turn was delivered after
\* its one inference call, and the record is as the turn left it
C33_Witness ==
    /\ lastResp.op = "getReport"
    /\ lastResp.status = 200
    /\ "executiveSummary" \in DOMAIN lastResp.body
    /\ Created(lastResp.id)
    /\ Len(History(lastResp.id)) = 2
    /\ Len(Timeline(lastResp.id)) >= 2
    /\ reports = {}

----------------------------------------------------------------------------
(* The record at creation *)

\* this step is the successful createIncident of id
Creates(id) == ~Created(id) /\ Created(id)'

\* the timeline of id starts with the detection event of its creation
DetectionFirst(id) ==
    /\ Len(Timeline(id)) >= 1
    /\ Timeline(id)[1].type = "detection"
    /\ Timeline(id)[1].description = "Incident detected and initialized"
    /\ Timeline(id)[1].data.incidentId = id

\* C34: immediately after a successful createIncident the record has status
\* investigating, a stored empty history, a timeline of exactly one event,
\* the detection event, and no endTime, rootCause or remediationSteps; and
\* in every later state, whatever chat turns and status updates follow, the
\* first timeline entry is still that same detection event.
C34_FreshRecord ==
    /\ [](\A id \in Ids : Created(id) => DetectionFirst(id))
    /\ [][\A id \in Ids :
            /\ Creates(id) =>
                  /\ lastResp'.op = "createIncident" /\ lastResp'.status = 201
                  /\ storage'[id].status = "investigating"
                  /\ storage'[id].history = <<>>
                  /\ Len(storage'[id].timeline) = 1
                  /\ DetectionFirst(id)'
                  /\ storage'[id].timeline[1].timestamp = storage'[id].startTime
                  /\ {"endTime", "rootCause", "remediationSteps"} \cap DOMAIN storage'[id] = {}
            /\ Created(id) => Timeline(id)'[1] = Timeline(id)[1]]_vars

\* a created incident has been through a chat turn that moved its status and
\* through a resolving update, and its detection event is still first of
\* at least four events
C34_Witness ==
    /\ Created("INC-1")
    /\ Len(History("INC-1")) >= 2
    /\ Has(storage["INC-1"], "endTime")
    /\ Len(Timeline("INC-1")) >= 4
    /\ DetectionFirst("INC-1")

----------------------------------------------------------------------------
(* The range of the status *)

\* C35: in every reachable state the stored status of an incident is one of
\* investigating, identified, mitigating, resolved, monitoring, whatever
\* status values callers pass to updateStatus.
C35_StatusInRange ==
    \A id \in Ids : Created(id) => storage[id].status \in IncidentStatuses

----------------------------------------------------------------------------
(* Start and end *)

----------------------------------------------------------------------------
(* The shape of the conversation *)

\* h goes user, assistant, user, assistant, ...
Alternates(h) ==
    \A i \in 1..Len(h) : h[i].role = (IF i % 2 = 1 THEN "user" ELSE "assistant")

\* C37: in every reachable state the stored history of an incident has even
\* length and alternates user, assistant, ... from a user message on; so it
\* is too when postMessage calls overlap and when the messages come from
\* steps of the pipeline.
C37_HistoryAlternates ==
    \A id \in Ids :
        /\ Len(History(id)) % 2 = 0
        /\ Alternates(History(id))

\* a chat turn and a post of the pipeline overlapped: both are on the
\* timeline, the history holds the pair of the one that finished last
C37_Witness ==
    /\ calls = {}
    /\ completed # {}
    /\ LET tl == Timeline("INC-1")
       IN Cardinality({i \in 1..Len(tl) : tl[i].description = "AI analysis performed"}) = 2
    /\ Len(History("INC-1")) = 2
    /\ History("INC-1")[1].content = "m1"

----------------------------------------------------------------------------
(* The audit trail and the conversation *)

\* the positions of the timeline of id written by handleMessage
TurnEvents(id) ==
    {i \in 1..Len(Timeline(id)) : Timeline(id)[i].description = "AI analysis performed"}

\* C38: the audit trail and the conversation agree: in every reachable state
\* each update event that postMessage wrote to the timeline of an incident
\* has its user text and assistant text as an adjacent user/assistant pair of
\* the stored history, and there are as many such events as half the length
\* of the history; so it is too when postMessage calls on the incident
\* overlap.
C38_TrailAgrees ==
    \A id \in Ids :
        Created(id) =>
            /\ \A i \in TurnEvents(id) :
                  PairIn(History(id), Timeline(id)[i].data.userMessage,
                         Timeline(id)[i].data.aiResponse)
            /\ 2 * Cardinality(TurnEvents(id)) = Len(History(id))

----------------------------------------------------------------------------
(* Chat on a closed incident *)

ClosedStatuses == {"resolved", "monitoring", "mitigating"}

\* the status and the endTime of id are after the step what they were
StatusKept(id) ==
    /\ StatusOf(id)' = StatusOf(id)
    /\ EndTimeSet(id)' = EndTimeSet(id)
    /\ EndTimeSet(id) => storage'[id].endTime = storage[id].endTime

\* the step appended exactly one event to the timeline of id, the update
\* event of a chat turn
OneUpdateAppended(id) ==
    /\ Len(Timeline(id)') = Len(Timeline(id)) + 1
    /\ IsPrefix(Timeline(id), Timeline(id)')
    /\ Timeline(id)'[Len(Timeline(id)')].type = "update"
    /\ Timeline(id)'[Len(Timeline(id)')].description = "AI analysis performed"

\* the step wrote no key of id but history, lastActivity and timeline
OnlyTurnKeys(id) ==
    /\ DOMAIN storage'[id] = DOMAIN storage[id] \cup {"history", "lastActivity", "timeline"}
    /\ \A k \in (DOMAIN storage[id]) \ {"history", "lastActivity", "timeline"} :
          storage'[id][k] = storage[id][k]

\* the call c stores its turn while the incident is closed
StoresOnClosed(c) ==
    /\ c \in calls /\ c \notin calls'
    /\ storage'[c.id] # storage[c.id]
    /\ StatusOf(c.id) \in ClosedStatuses

\* C39: a closed incident stays closed under chat: when the status is
\* resolved, monitoring or mitigating, a postMessage, from a human or from
\* the pipeline and whatever the assistant text, changes neither status nor
\* endTime; it only appends its pair to the history and one update event to
\* the timeline.  So it is too when updateStatus set resolved while the
\* postMessage was waiting on inference.
C39_ClosedStaysClosed ==
    [][\A c \in calls : StoresOnClosed(c) =>
          /\ StatusKept(c.id)
          /\ OneUpdateAppended(c.id)
          /\ OnlyTurnKeys(c.id)
          /\ IsPrefix(History(c.id), History(c.id)')
          /\ Len(History(c.id)') = Len(History(c.id)) + 2]_vars

\* the part of C39 about the status: whatever else a turn stored on a closed
\* incident does, the status and the endTime stay, one update event is
\* appended and no other key than history, lastActivity and timeline is
\* written
C39_StatusPart ==
    [][\A c \in calls : StoresOnClosed(c) =>
          /\ StatusKept(c.id)
          /\ OneUpdateAppended(c.id)
          /\ OnlyTurnKeys(c.id)
          /\ History(c.id)' = Append(c.history, History(c.id)'[Len(History(c.id)')])]_vars

====
